---- MODULE Spec2Model ----
(***************************************************************************)
(* Request handlers of the recipes-helloworld Pages Functions:             *)
(*   GET  /api/auth/me        (two revisions, src/unnamed/part_001)        *)
(*   POST /api/verify-google  (src/functions/api/verify-google.js)         *)
(*   POST/GET /api/recipes    (src/unnamed/part_000)                       *)
(*   GET  /api/recipe         (two revisions, src/functions/api/recipe.js) *)
(* Every handler is one action: it takes one request from the idle state,  *)
(* makes its external calls (introspection fetch, database statement),     *)
(* whose answers the environment chooses, and leaves the response.  The    *)
(* runtime then discards the request context (Release).                    *)
(***************************************************************************)
EXTENDS Integers, Sequences, FiniteSets, TLC

VARIABLES
    store,      \* rows of the recipes table, in insertion order
    pc,         \* "idle" (no request in progress) or "responded"
    request,    \* the request being answered
    response,   \* the response of the handler
    trace,      \* the external calls and header reads the handler made, in order
    accepted,   \* history: the id and the payload of every submission answered 201
    earlier,    \* history: an exchange of GET /api/auth/me that was handled before
    header      \* the page's header controller: position, display, requests sent

vars == <<store, pc, request, response, trace, accepted, earlier, header>>

(***************************************************************************)
(* JavaScript values.  Every value is a record of one shape: kind is the   *)
(* typeof-like tag, s the text of a primitive, kids the own properties of  *)
(* an object in insertion order.                                           *)
(***************************************************************************)
Undef == [kind |-> "undefined", s |-> "", kids |-> <<>>]
Null == [kind |-> "null", s |-> "", kids |-> <<>>]
Str(x) == [kind |-> "string", s |-> x, kids |-> <<>>]
Num(x) == [kind |-> "number", s |-> x, kids |-> <<>>]
Bool(b) == [kind |-> "boolean", s |-> IF b THEN "true" ELSE "false", kids |-> <<>>]
Obj(entries) == [kind |-> "object", s |-> "", kids |-> entries]
Entry(k, v) == [key |-> k, val |-> v]
\* An array: its elements are the properties "0", "1", ...
Arr(elems) ==
    [kind |-> "array", s |-> "",
     kids |-> [i \in 1..Len(elems) |-> Entry(ToString(i - 1), elems[i])]]

\* ToBoolean: what `if (x)`, `!x`, `x || y` and `x ? a : b` test.
Truthy(v) ==
    CASE v.kind = "string" -> v.s # ""
      [] v.kind = "number" -> v.s # "0"
      [] v.kind = "boolean" -> v.s = "true"
      [] v.kind \in {"object", "array"} -> TRUE
      [] OTHER -> FALSE

\* a || b
Or(a, b) == IF Truthy(a) THEN a ELSE b

\* Reading a property of null or undefined throws a TypeError.
Nullish(v) == v.kind \in {"null", "undefined"}

HasKey(o, k) == \E i \in 1..Len(o.kids) : o.kids[i].key = k

\* o.k for a non-nullish o: the own property, else undefined.
Get(o, k) ==
    IF HasKey(o, k)
    THEN o.kids[CHOOSE i \in 1..Len(o.kids) : o.kids[i].key = k].val
    ELSE Undef

Keys(o) == {o.kids[i].key : i \in 1..Len(o.kids)}

\* obj[k] = v on an object literal under construction: an existing key keeps
\* its position and takes the new value, a new key is appended.
Put(o, k, v) ==
    IF HasKey(o, k)
    THEN Obj([i \in 1..Len(o.kids) |->
                 IF o.kids[i].key = k THEN Entry(k, v) ELSE o.kids[i]])
    ELSE Obj(Append(o.kids, Entry(k, v)))

RECURSIVE PutAll(_, _)
\* { ...o, ...src }: every own property of src is put over o, in order.
PutAll(o, entries) ==
    IF entries = <<>> THEN o
    ELSE PutAll(Put(o, Head(entries).key, Head(entries).val), Tail(entries))

\* { ...base, ...src } where src is any value: primitives spread nothing.
Spread(base, src) == IF src.kind = "object" THEN PutAll(base, src.kids) ELSE base

(***************************************************************************)
(* JSON text.  wf says whether JSON.parse accepts the text; v is the value *)
(* it parses to.  JSON.stringify drops the properties whose value is       *)
(* undefined.                                                              *)
(***************************************************************************)
RECURSIVE StripUndef(_)
StripUndef(v) ==
    IF v.kind = "object"
    THEN LET kept == SelectSeq(v.kids, LAMBDA e : e.val.kind # "undefined")
         IN  Obj([i \in 1..Len(kept) |-> Entry(kept[i].key, StripUndef(kept[i].val))])
    ELSE v

JSONstringify(v) == [wf |-> TRUE, v |-> StripUndef(v)]
BadJSON == [wf |-> FALSE, v |-> Undef]
\* JSON.parse(t) throws a SyntaxError when ~t.wf.
JSONparse(t) == t.v

(***************************************************************************)
(* Requests and responses.                                                 *)
(***************************************************************************)
\* request.headers.get('Authorization'): null, or the header's value.
NoHeader == [present |-> FALSE, value |-> ""]
Header(v) == [present |-> TRUE, value |-> v]

\* s.startsWith(p), s.substring(n), s.substring(0, n), s.includes(p)
StartsWith(str, p) == Len(str) >= Len(p) /\ SubSeq(str, 1, Len(p)) = p
SubstringFrom(str, n) == SubSeq(str, n + 1, Len(str))
SubstringTo(str, n) == SubSeq(str, 1, IF Len(str) < n THEN Len(str) ELSE n)
Includes(str, p) ==
    \E i \in 1..(Len(str) - Len(p) + 1) : SubSeq(str, i, i + Len(p) - 1) = p

\* A string met as a cookie value (or null): raw is the string itself, parts
\* what split('.') makes of it, each part with what atob and JSON.parse make
\* of it.
Seg(ok, t) == [b64 |-> ok, text |-> t]
OpaqueSeg == Seg(FALSE, BadJSON)
NullString == [null |-> TRUE, raw |-> "", parts |-> <<>>]
Token(t) == [null |-> FALSE, raw |-> t, parts |-> <<OpaqueSeg>>]
Dotted(r, segs) == [null |-> FALSE, raw |-> r, parts |-> segs]
StrTruthy(c) == ~c.null /\ c.raw # ""

\* request.headers.get('Cookie'): absent, or the name=value pairs in order.
NoCookieHeader == [present |-> FALSE, pairs |-> <<>>]
CookieHeader(ps) == [present |-> TRUE, pairs |-> ps]
Cookie(n, v) == [name |-> n, value |-> v]

\* What the introspection endpoint does with one fetch.
NoAnswer == [threw |-> FALSE, ok |-> FALSE, body |-> BadJSON]
FetchThrows == [threw |-> TRUE, ok |-> FALSE, body |-> BadJSON]
Reply(ok, body) == [threw |-> FALSE, ok |-> ok, body |-> body]

\* One entry of the trace.
Fetch(token, ans) == [op |-> "fetch", arg |-> token, ans |-> ans]
ReadHeader(name) == [op |-> "header", arg |-> name, ans |-> NoAnswer]
ParseJWT(raw) == [op |-> "parseJWT", arg |-> raw, ans |-> NoAnswer]

\* A response; ret names the return statement that produced it.
Response(st, b) ==
    [status |-> st, contentType |-> "application/json", body |-> b, ret |-> ""]
NoResponse == [status |-> 0, contentType |-> "", body |-> BadJSON, ret |-> ""]
Outcome(r, ret, tr) == [resp |-> [r EXCEPT !.ret = ret], tr |-> tr]

\* A request: the headers, body and query parameter the handlers read.
\* body is what the body parser makes of the body, id the id query parameter.
\* url.searchParams.get('id'): null, or the parameter's value.
NoParam == NoHeader
Param(v) == Header(v)

Request(h, auth, cookie, ctype, body, id) ==
    [handler |-> h, authorization |-> auth, cookie |-> cookie,
     contentType |-> ctype, body |-> body, id |-> id]
NoRequest ==
    Request("", NoHeader, [present |-> FALSE, pairs |-> <<>>], NoHeader, BadJSON, NoParam)

\* A request, the calls made for it and its response.
Exchange(req, tr, resp) == [request |-> req, trace |-> tr, response |-> resp]
NoExchange == Exchange(NoRequest, <<>>, NoResponse)

\* The page's header controller.  pc is "loaded" before initHeaderAuth is
\* called, "bearer" or "cookie" while that request is awaited, "done" after.
\* requests are the fetches made so far, each with its result.
Page(p, display, text, reqs, local, session, cookies, server) ==
    [pc |-> p, display |-> display, userName |-> text, requests |-> reqs,
     localStorage |-> local, sessionStorage |-> session,
     cookies |-> cookies, server |-> server]
\* No page is open.
NoPage == Page("", "", "", <<>>, NullString, NullString, NoCookieHeader, "")

(***************************************************************************)
(* GET /api/auth/me, first revision.                                       *)
(***************************************************************************)
CLIENT_ID == "184950928765-22nhslddgetmmnfl8kl728n6fv0bg7hu.apps.googleusercontent.com"

verifyGoogleToken_r1(token, ans) ==
    IF ans.threw THEN Null                      \* fetch rejects: caught
    ELSE IF ~ans.ok THEN Null
    ELSE IF ~ans.body.wf THEN Null              \* response.json() rejects: caught
    ELSE LET data == JSONparse(ans.body)
         IN  IF Nullish(data) THEN Null         \* data.error throws: caught
             ELSE IF Truthy(Get(data, "error")) \/ Get(data, "aud") # Str(CLIENT_ID)
                  THEN Null
             ELSE Obj(<<Entry("email", Get(data, "email")),
                        Entry("name", Or(Get(data, "name"), Get(data, "email"))),
                        Entry("picture", Get(data, "picture")),
                        Entry("email_verified", Get(data, "email_verified"))>>)

\* A bug parseCloudflareAccessJWT could have: email_verified is copied from
\* the payload instead of being forced.
parseCloudflareAccessJWT_r1_trustsFlag(jwt) ==
    LET parts == jwt.parts
    IN  IF Len(parts) # 3 \/ ~parts[2].b64 \/ ~parts[2].text.wf THEN Null
        ELSE LET payload == JSONparse(parts[2].text)
             IN  IF Nullish(payload) THEN Null
                 ELSE Obj(<<
                     Entry("email", Or(Or(Get(payload, "email"), Get(payload, "sub")),
                                       Str("unknown@user"))),
                     Entry("name", Or(Or(Or(Or(Get(payload, "name"),
                                               Get(payload, "given_name")),
                                            Get(payload, "family_name")),
                                         Get(payload, "email")),
                                      Str("User"))),
                     Entry("picture", Or(Get(payload, "picture"), Null)),
                     Entry("email_verified", Get(payload, "email_verified"))>>)

parseCloudflareAccessJWT_r1(jwt) ==
    LET parts == jwt.parts
    IN  IF Len(parts) # 3 THEN Null
        ELSE IF ~parts[2].b64 THEN Null         \* atob throws: caught
        ELSE IF ~parts[2].text.wf THEN Null     \* JSON.parse throws: caught
        ELSE LET payload == JSONparse(parts[2].text)
             IN  IF Nullish(payload) THEN Null  \* payload.email throws: caught
                 ELSE Obj(<<
                     Entry("email", Or(Or(Get(payload, "email"), Get(payload, "sub")),
                                       Str("unknown@user"))),
                     Entry("name", Or(Or(Or(Or(Get(payload, "name"),
                                               Get(payload, "given_name")),
                                            Get(payload, "family_name")),
                                         Get(payload, "email")),
                                      Str("User"))),
                     Entry("picture", Or(Get(payload, "picture"), Null)),
                     Entry("email_verified", Bool(TRUE))>>)

\* The regular expression finds the leftmost name=value whose value is not
\* empty ([^;]+ needs one character).
extractCookie_r1(cookieHeader, name) ==
    LET hits == {i \in 1..Len(cookieHeader.pairs) :
                    /\ cookieHeader.pairs[i].name = name
                    /\ cookieHeader.pairs[i].value.raw # ""}
    IN  IF hits = {} THEN NullString
        ELSE cookieHeader.pairs[CHOOSE i \in hits : \A j \in hits : i <= j].value

createSuccessResponse_r1(user) == Response(200, JSONstringify(user))

createErrorResponse_r1 ==
    Response(401, JSONstringify(Obj(<<
        Entry("error", Str("Unauthenticated")),
        Entry("message", Str("No valid authentication credentials found"))>>)))

\* First step: the bearer token of the Authorization header.  The set of
\* results, one for each way the introspection endpoint (answers) can behave.
bearerStep_r1(req, answers) ==
    LET authHeader == req.authorization
        t0 == <<ReadHeader("Authorization")>>
        token == SubstringFrom(authHeader.value, 7)
    IN  IF authHeader.present /\ authHeader.value # ""
           /\ StartsWith(authHeader.value, "Bearer ")
        THEN {[user |-> verifyGoogleToken_r1(token, a),
               tr |-> Append(t0, Fetch(token, a))] : a \in answers}
        ELSE {[user |-> Null, tr |-> t0]}

\* A bug the fallback steps could have: after a google_token that does not
\* verify, the authToken cookie is tried as well.
cookieSteps_r1_triesBoth(req, tr0, answers) ==
    LET cookieHeader == req.cookie
        t1 == Append(tr0, ReadHeader("Cookie"))
    IN  IF ~(cookieHeader.present /\ cookieHeader.pairs # <<>>)
        THEN {Outcome(createErrorResponse_r1, "none", t1)}
        ELSE
        LET cfAccessJWT == extractCookie_r1(cookieHeader, "CF_Authorization")
            cfUser == IF StrTruthy(cfAccessJWT)
                      THEN parseCloudflareAccessJWT_r1(cfAccessJWT)
                      ELSE Null
            t2 == IF StrTruthy(cfAccessJWT)
                  THEN Append(t1, ParseJWT(cfAccessJWT.raw))
                  ELSE t1
            first == extractCookie_r1(cookieHeader, "google_token")
            second == extractCookie_r1(cookieHeader, "authToken")
            googleToken == IF StrTruthy(first) THEN first ELSE second
        IN  IF Truthy(cfUser)
            THEN {Outcome(createSuccessResponse_r1(cfUser), "cf", t2)}
            ELSE IF ~StrTruthy(googleToken)
            THEN {Outcome(createErrorResponse_r1, "none", t2)}
            ELSE UNION {
                  LET user == verifyGoogleToken_r1(googleToken.raw, a)
                      t3 == Append(t2, Fetch(googleToken.raw, a))
                  IN  IF Truthy(user)
                      THEN {Outcome(createSuccessResponse_r1(user), "cookieToken", t3)}
                      ELSE IF StrTruthy(first) /\ StrTruthy(second)
                      THEN {LET again == verifyGoogleToken_r1(second.raw, a2)
                                t4 == Append(t3, Fetch(second.raw, a2))
                            IN  IF Truthy(again)
                                THEN Outcome(createSuccessResponse_r1(again),
                                             "cookieToken", t4)
                                ELSE Outcome(createErrorResponse_r1, "none", t4)
                            : a2 \in {FetchThrows}}
                      ELSE {Outcome(createErrorResponse_r1, "none", t3)}
                  : a \in answers}

\* The fallback steps: the CF_Authorization cookie, then a cookie token.
cookieSteps_r1(req, tr0, answers) ==
    LET cookieHeader == req.cookie
        t1 == Append(tr0, ReadHeader("Cookie"))
    IN  IF ~(cookieHeader.present /\ cookieHeader.pairs # <<>>)
        THEN {Outcome(createErrorResponse_r1, "none", t1)}
        ELSE
        LET cfAccessJWT == extractCookie_r1(cookieHeader, "CF_Authorization")
            cfUser == IF StrTruthy(cfAccessJWT)
                      THEN parseCloudflareAccessJWT_r1(cfAccessJWT)
                      ELSE Null
            t2 == IF StrTruthy(cfAccessJWT)
                  THEN Append(t1, ParseJWT(cfAccessJWT.raw))
                  ELSE t1
            first == extractCookie_r1(cookieHeader, "google_token")
            googleToken == IF StrTruthy(first) THEN first
                           ELSE extractCookie_r1(cookieHeader, "authToken")
        IN  IF Truthy(cfUser)
            THEN {Outcome(createSuccessResponse_r1(cfUser), "cf", t2)}
            ELSE IF ~StrTruthy(googleToken)
            THEN {Outcome(createErrorResponse_r1, "none", t2)}
            ELSE {LET user == verifyGoogleToken_r1(googleToken.raw, a)
                      t3 == Append(t2, Fetch(googleToken.raw, a))
                  IN  IF Truthy(user)
                      THEN Outcome(createSuccessResponse_r1(user), "cookieToken", t3)
                      ELSE Outcome(createErrorResponse_r1, "none", t3)
                  : a \in answers}

\* A bug this handler could have: the cookie steps run although the bearer
\* token verified, and their identity is preferred.
onRequestGet_r1_cookiesFirst(req, answers) ==
    UNION {{IF c.resp.status = 200 \/ ~Truthy(b.user) THEN c
            ELSE Outcome(createSuccessResponse_r1(b.user), "bearer", c.tr)
            : c \in cookieSteps_r1(req, b.tr, answers)}
           : b \in bearerStep_r1(req, answers)}

\* A bug this handler could have: the identity a bearer token verified to is
\* kept in a module variable and answered again without a new introspection.
onRequestGet_r1_cached(req, answers) ==
    IF earlier.response.ret = "bearer" /\ earlier.request.authorization = req.authorization
    THEN {Outcome(earlier.response, "bearer", <<ReadHeader("Authorization")>>)}
    ELSE UNION {IF Truthy(b.user)
                THEN {Outcome(createSuccessResponse_r1(b.user), "bearer", b.tr)}
                ELSE cookieSteps_r1(req, b.tr, answers)
                : b \in bearerStep_r1(req, answers)}

\* The set of outcomes of the handler for request req.
onRequestGet_r1(req, answers) ==
    UNION {IF Truthy(b.user)
           THEN {Outcome(createSuccessResponse_r1(b.user), "bearer", b.tr)}
           ELSE cookieSteps_r1(req, b.tr, answers)
           : b \in bearerStep_r1(req, answers)}

(***************************************************************************)
(* GET /api/auth/me, second revision (the same steps, with more logging).  *)
(***************************************************************************)
\* A bug verifyGoogleToken could have: the audience is not compared.
verifyGoogleToken_r2_noAud(token, ans) ==
    IF ans.threw \/ ~ans.ok \/ ~ans.body.wf THEN Null
    ELSE LET data == JSONparse(ans.body)
         IN  IF Nullish(data) \/ Truthy(Get(data, "error")) THEN Null
             ELSE Obj(<<Entry("email", Get(data, "email")),
                        Entry("name", Or(Get(data, "name"), Get(data, "email"))),
                        Entry("picture", Get(data, "picture")),
                        Entry("email_verified", Get(data, "email_verified"))>>)

verifyGoogleToken_r2(token, ans) ==
    IF ans.threw THEN Null                      \* fetch rejects: caught
    ELSE IF ~ans.ok THEN Null
    ELSE IF ~ans.body.wf THEN Null              \* response.json() rejects: caught
    ELSE LET data == JSONparse(ans.body)
         IN  IF Nullish(data) THEN Null         \* data.error throws: caught
             ELSE IF Truthy(Get(data, "error")) THEN Null
             ELSE IF Get(data, "aud") # Str(CLIENT_ID) THEN Null
             ELSE Obj(<<Entry("email", Get(data, "email")),
                        Entry("name", Or(Get(data, "name"), Get(data, "email"))),
                        Entry("picture", Get(data, "picture")),
                        Entry("email_verified", Get(data, "email_verified"))>>)

parseCloudflareAccessJWT_r2(jwt) ==
    LET parts == jwt.parts
    IN  IF Len(parts) # 3 THEN Null
        ELSE IF ~parts[2].b64 THEN Null         \* atob throws: caught
        ELSE IF ~parts[2].text.wf THEN Null     \* JSON.parse throws: caught
        ELSE LET payload == JSONparse(parts[2].text)
             IN  IF Nullish(payload) THEN Null  \* payload.email throws: caught
                 ELSE Obj(<<
                     Entry("email", Or(Or(Get(payload, "email"), Get(payload, "sub")),
                                       Str("unknown@user"))),
                     Entry("name", Or(Or(Or(Or(Get(payload, "name"),
                                               Get(payload, "given_name")),
                                            Get(payload, "family_name")),
                                         Get(payload, "email")),
                                      Str("User"))),
                     Entry("picture", Or(Get(payload, "picture"), Null)),
                     Entry("email_verified", Bool(TRUE))>>)

\* A bug extractCookie could have: the expression is anchored at the start of
\* the header, so only its first cookie is found.
extractCookie_r2_firstOnly(cookieHeader, name) ==
    IF /\ cookieHeader.pairs # <<>>
       /\ cookieHeader.pairs[1].name = name
       /\ cookieHeader.pairs[1].value.raw # ""
    THEN cookieHeader.pairs[1].value
    ELSE NullString

\* The regular expression finds the leftmost name=value whose value is not
\* empty ([^;]+ needs one character).
extractCookie_r2(cookieHeader, name) ==
    LET hits == {i \in 1..Len(cookieHeader.pairs) :
                    /\ cookieHeader.pairs[i].name = name
                    /\ cookieHeader.pairs[i].value.raw # ""}
    IN  IF hits = {} THEN NullString
        ELSE cookieHeader.pairs[CHOOSE i \in hits : \A j \in hits : i <= j].value

createSuccessResponse_r2(user) == Response(200, JSONstringify(user))

createErrorResponse_r2 ==
    Response(401, JSONstringify(Obj(<<
        Entry("error", Str("Unauthenticated")),
        Entry("message", Str("No valid authentication credentials found"))>>)))

\* First step: the bearer token of the Authorization header.  The set of
\* results, one for each way the introspection endpoint (answers) can behave.
bearerStep_r2(req, answers) ==
    LET authHeader == req.authorization
        t0 == <<ReadHeader("Authorization")>>
        token == SubstringFrom(authHeader.value, 7)
    IN  IF authHeader.present /\ authHeader.value # ""
           /\ StartsWith(authHeader.value, "Bearer ")
        THEN {[user |-> verifyGoogleToken_r2(token, a),
               tr |-> Append(t0, Fetch(token, a))] : a \in answers}
        ELSE {[user |-> Null, tr |-> t0]}

\* The fallback steps: the CF_Authorization cookie, then a cookie token.
\* A bug the fallback steps could have: a CF_Authorization cookie that does
\* not decode ends the resolution instead of leaving it to the cookie token.
cookieSteps_r2_cfEnds(req, tr0, answers) ==
    LET cookieHeader == req.cookie
        t1 == Append(tr0, ReadHeader("Cookie"))
    IN  IF ~(cookieHeader.present /\ cookieHeader.pairs # <<>>)
        THEN {Outcome(createErrorResponse_r2, "none", t1)}
        ELSE
        LET cfAccessJWT == extractCookie_r2(cookieHeader, "CF_Authorization")
            cfUser == IF StrTruthy(cfAccessJWT)
                      THEN parseCloudflareAccessJWT_r2(cfAccessJWT)
                      ELSE Null
            t2 == IF StrTruthy(cfAccessJWT)
                  THEN Append(t1, ParseJWT(cfAccessJWT.raw))
                  ELSE t1
            first == extractCookie_r2(cookieHeader, "google_token")
            googleToken == IF StrTruthy(first) THEN first
                           ELSE extractCookie_r2(cookieHeader, "authToken")
        IN  IF Truthy(cfUser)
            THEN {Outcome(createSuccessResponse_r2(cfUser), "cf", t2)}
            ELSE IF StrTruthy(cfAccessJWT) \/ ~StrTruthy(googleToken)
            THEN {Outcome(createErrorResponse_r2, "none", t2)}
            ELSE {LET user == verifyGoogleToken_r2(googleToken.raw, a)
                      t3 == Append(t2, Fetch(googleToken.raw, a))
                  IN  IF Truthy(user)
                      THEN Outcome(createSuccessResponse_r2(user), "cookieToken", t3)
                      ELSE Outcome(createErrorResponse_r2, "none", t3)
                  : a \in answers}

cookieSteps_r2(req, tr0, answers) ==
    LET cookieHeader == req.cookie
        t1 == Append(tr0, ReadHeader("Cookie"))
    IN  IF ~(cookieHeader.present /\ cookieHeader.pairs # <<>>)
        THEN {Outcome(createErrorResponse_r2, "none", t1)}
        ELSE
        LET cfAccessJWT == extractCookie_r2(cookieHeader, "CF_Authorization")
            cfUser == IF StrTruthy(cfAccessJWT)
                      THEN parseCloudflareAccessJWT_r2(cfAccessJWT)
                      ELSE Null
            t2 == IF StrTruthy(cfAccessJWT)
                  THEN Append(t1, ParseJWT(cfAccessJWT.raw))
                  ELSE t1
            first == extractCookie_r2(cookieHeader, "google_token")
            googleToken == IF StrTruthy(first) THEN first
                           ELSE extractCookie_r2(cookieHeader, "authToken")
        IN  IF Truthy(cfUser)
            THEN {Outcome(createSuccessResponse_r2(cfUser), "cf", t2)}
            ELSE IF ~StrTruthy(googleToken)
            THEN {Outcome(createErrorResponse_r2, "none", t2)}
            ELSE {LET user == verifyGoogleToken_r2(googleToken.raw, a)
                      t3 == Append(t2, Fetch(googleToken.raw, a))
                  IN  IF Truthy(user)
                      THEN Outcome(createSuccessResponse_r2(user), "cookieToken", t3)
                      ELSE Outcome(createErrorResponse_r2, "none", t3)
                  : a \in answers}

\* A bug this handler could have: the cookie steps run although the bearer
\* token verified, and their identity is preferred.
onRequestGet_r2_cookiesFirst(req, answers) ==
    UNION {{IF c.resp.status = 200 \/ ~Truthy(b.user) THEN c
            ELSE Outcome(createSuccessResponse_r2(b.user), "bearer", c.tr)
            : c \in cookieSteps_r2(req, b.tr, answers)}
           : b \in bearerStep_r2(req, answers)}

\* The set of outcomes of the handler for request req.
onRequestGet_r2(req, answers) ==
    UNION {IF Truthy(b.user)
           THEN {Outcome(createSuccessResponse_r2(b.user), "bearer", b.tr)}
           ELSE cookieSteps_r2(req, b.tr, answers)
           : b \in bearerStep_r2(req, answers)}

(***************************************************************************)
(* POST /api/verify-google.                                                *)
(***************************************************************************)
\* req.body is what request.json() makes of the body: BadJSON when it rejects.
verifyGoogle_onRequestPost(req, answers) ==
    LET err(st, msg) == Response(st, JSONstringify(Obj(<<
            Entry("success", Bool(FALSE)), Entry("error", Str(msg))>>)))
    IN  IF ~req.body.wf
        THEN {Outcome(err(500, "Server error during verification"), "catch", <<>>)}
        ELSE
        LET body == JSONparse(req.body)
        IN  IF Nullish(body)                    \* destructuring null throws: caught
            THEN {Outcome(err(500, "Server error during verification"), "catch", <<>>)}
            ELSE
            LET token == Get(body, "token")
            IN  IF ~Truthy(token)
                THEN {Outcome(err(400, "No token provided"), "noToken", <<>>)}
                ELSE IF token.kind # "string"   \* token.substring throws: caught
                THEN {Outcome(err(500, "Server error during verification"), "catch", <<>>)}
                ELSE
                {LET tr == <<Fetch(token.s, a)>>
                 IN  IF a.threw \/ ~a.body.wf   \* fetch or json() rejects: caught
                     THEN Outcome(err(500, "Server error during verification"), "catch", tr)
                     ELSE
                     LET verifyData == JSONparse(a.body)
                     IN  IF Nullish(verifyData) \* verifyData.error throws: caught
                         THEN Outcome(err(500, "Server error during verification"),
                                      "catch", tr)
                         ELSE IF Truthy(Get(verifyData, "error"))
                         THEN Outcome(err(401, "Invalid token: " \o Get(verifyData, "error").s),
                                      "error", tr)
                         ELSE IF Get(verifyData, "aud") # Str(CLIENT_ID)
                         THEN Outcome(err(401, "Invalid token: client ID mismatch"),
                                      "aud", tr)
                         ELSE Outcome(Response(200, JSONstringify(Obj(<<
                                 Entry("success", Bool(TRUE)),
                                 Entry("user", Obj(<<
                                     Entry("email", Get(verifyData, "email")),
                                     Entry("name", Get(verifyData, "name")),
                                     Entry("picture", Get(verifyData, "picture")),
                                     Entry("email_verified",
                                           Get(verifyData, "email_verified"))>>))>>))),
                                 "ok", tr)
                 : a \in answers}

(***************************************************************************)
(* The recipes table.  created_at is the second datetime("now") gave.      *)
(***************************************************************************)
\* A bug the insert could have: only the fields that are not title fields are
\* kept in details.
Row_dynamicOnly(id, title, details, t) ==
    [id |-> id, title |-> title,
     details |-> IF details.wf /\ details.v.kind = "object"
                 THEN [details EXCEPT !.v = Obj(SelectSeq(details.v.kids,
                          LAMBDA e : e.key \notin {"name", "title", "recipeName"}))]
                 ELSE details,
     created_at |-> t, category |-> Null, user_id |-> Null]

\* INSERT INTO recipes (title, details, created_at) VALUES (?, ?, datetime("now"))
Row(id, title, details, t) ==
    [id |-> id, title |-> title, details |-> details, created_at |-> t,
     category |-> Null, user_id |-> Null]

\* A row that belongs to a user: user_id is set by the program that wrote it.
OwnedRow(id, title, details, t, owner) ==
    [Row(id, title, details, t) EXCEPT !.user_id = Str(owner)]
IdValue(n) == Num(ToString(n))
TimeValue(t) == Str(ToString(t))

\* One database statement in the trace.
DbCall(stmt, threw) ==
    [op |-> stmt, arg |-> "", ans |-> IF threw THEN FetchThrows ELSE NoAnswer]

\* An outcome of a handler that works on the table: rows is the table after it.
StoreOutcome(r, ret, tr, rows) == [resp |-> [r EXCEPT !.ret = ret], tr |-> tr, rows |-> rows]

\* WHERE id = ?: the text bound to the parameter takes the column's affinity.
RowsWithId(rows, text) == {i \in DOMAIN rows : ToString(rows[i].id) = text}

\* The seconds a new row can be stamped with: that of the last insert or later.
InsertTimes(rows) ==
    IF rows = <<>> THEN {0}
    ELSE {rows[Len(rows)].created_at, rows[Len(rows)].created_at + 1}

\* ORDER BY created_at DESC: every order of the rows that is non-increasing in
\* created_at (rows of the same second come in any order).
OrderedByCreatedDesc(rows) ==
    LET n == Len(rows)
        perms == {p \in [1..n -> 1..n] : \A i, j \in 1..n : i # j => p[i] # p[j]}
    IN  {[i \in 1..n |-> rows[p[i]]] :
            p \in {q \in perms : \A i, j \in 1..n :
                      i < j => rows[q[i]].created_at >= rows[q[j]].created_at}}

\* A bug the helper could have: the error goes out as text, not as JSON.
JSONError_text(st, fields) ==
    [Response(st, BadJSON) EXCEPT !.contentType = "text/plain"]

\* jsonResponse(data, status)
JSONError(st, fields) == Response(st, JSONstringify(Obj(fields)))

(***************************************************************************)
(* POST /api/recipes and GET /api/recipes.                                 *)
(***************************************************************************)
DescriptionLength == 100

\* The validation: one of name, title, recipeName is given.
recipes_hasTitle(recipeData) ==
    ~(/\ ~Truthy(Get(recipeData, "name"))
      /\ ~Truthy(Get(recipeData, "title"))
      /\ ~Truthy(Get(recipeData, "recipeName")))

\* A bug the title rule could have: name is looked at before recipeName.
recipes_title_nameFirst(recipeData) ==
    Or(Or(Or(Get(recipeData, "name"), Get(recipeData, "recipeName")),
          Get(recipeData, "title")),
       Str("Untitled Recipe"))

\* The title for the dedicated column.
recipes_title(recipeData) ==
    Or(Or(Or(Get(recipeData, "recipeName"), Get(recipeData, "name")),
          Get(recipeData, "title")),
       Str("Untitled Recipe"))

recipes_onRequestPost(req, rows) ==
    LET contentType == req.contentType
        given == contentType.present /\ contentType.value # ""
        caught(tr) == StoreOutcome(
            JSONError(500, <<Entry("error", Str("Failed to save recipe")),
                             Entry("details", Str("error.message"))>>),
            "catch", tr, rows)
    IN  IF ~(given /\ Includes(contentType.value, "application/json"))
           /\ ~(given /\ Includes(contentType.value, "application/x-www-form-urlencoded"))
        THEN {StoreOutcome(JSONError(400, <<Entry("error", Str("Unsupported content type"))>>),
                           "contentType", <<>>, rows)}
        ELSE IF ~req.body.wf THEN {caught(<<>>)}    \* request.json() rejects
        ELSE
        LET recipeData == JSONparse(req.body)
        IN  IF Nullish(recipeData) THEN {caught(<<>>)}  \* recipeData.name throws
            ELSE IF ~recipes_hasTitle(recipeData)
            THEN {StoreOutcome(
                     JSONError(400, <<Entry("error",
                         Str("Recipe name, title, or recipeName is required"))>>),
                     "validation", <<>>, rows)}
            ELSE
            LET title == recipes_title(recipeData)
                details == JSONstringify(recipeData)
                last_row_id == Len(rows) + 1
            IN  {StoreOutcome(
                    Response(201, JSONstringify(Obj(<<
                        Entry("success", Bool(TRUE)),
                        Entry("id", IdValue(last_row_id)),
                        Entry("message", Str("Recipe saved successfully"))>>))),
                    "created", <<DbCall("INSERT", FALSE)>>,
                    Append(rows, Row(last_row_id, title, details, t)))
                 : t \in InsertTimes(rows)}
                \cup {caught(<<DbCall("INSERT", FALSE)>>)}   \* !result.success
                \cup {caught(<<DbCall("INSERT", TRUE)>>)}    \* the statement throws

\* The summary entry of one row; threw when building it throws.
recipes_summary(row) ==
    IF ~row.details.wf THEN [threw |-> TRUE, v |-> Undef]
    ELSE
    LET details == JSONparse(row.details)
        description == IF Nullish(details) THEN Undef ELSE Get(details, "description")
    IN  IF Nullish(details) THEN [threw |-> TRUE, v |-> Undef]
        ELSE IF Truthy(description) /\ description.kind # "string"
        THEN [threw |-> TRUE, v |-> Undef]      \* substring is not a function
        ELSE [threw |-> FALSE, v |-> Obj(<<
            Entry("id", IdValue(row.id)),
            Entry("name", Or(row.title, Str("Untitled Recipe"))),
            Entry("title", Or(row.title, Str("Untitled Recipe"))),
            Entry("recipeName", Or(row.title, Str("Untitled Recipe"))),
            Entry("author", Or(Get(details, "author"), Str("Anonymous"))),
            Entry("created_at", TimeValue(row.created_at)),
            Entry("summary", Obj(<<
                Entry("cuisine", Or(Get(details, "cuisine"), Null)),
                Entry("difficulty", Or(Get(details, "difficulty"), Null)),
                Entry("prepTime", Or(Or(Get(details, "prepTime"),
                                        Get(details, "prep_time")), Null)),
                Entry("cookTime", Or(Or(Get(details, "cookTime"),
                                        Get(details, "cook_time")), Null)),
                Entry("servings", Or(Get(details, "servings"), Null)),
                Entry("description",
                      IF Truthy(description)
                      THEN Str(SubstringTo(description.s, DescriptionLength))
                      ELSE Null)>>))>>)]

recipes_onRequestGet(req, rows) ==
    LET id == req.id
        caught(tr) == StoreOutcome(
            JSONError(500, <<Entry("error", Str("Failed to fetch recipes")),
                             Entry("details", Str("error.message"))>>),
            "catch", tr, rows)
    IN  IF id.present /\ id.value # ""
        THEN
            LET hits == RowsWithId(rows, id.value)
                tr == <<DbCall("SELECT first", FALSE)>>
            IN  {caught(<<DbCall("SELECT first", TRUE)>>)} \cup
                {IF hits = {}
                 THEN StoreOutcome(JSONError(404, <<Entry("error", Str("Recipe not found"))>>),
                                   "notFound", tr, rows)
                 ELSE
                 LET result == rows[CHOOSE i \in hits : TRUE]
                 IN  IF ~result.details.wf THEN caught(tr)   \* JSON.parse throws
                     ELSE
                     LET details == JSONparse(result.details)
                         recipe == Spread(Obj(<<
                             Entry("id", IdValue(result.id)),
                             Entry("title", result.title),
                             Entry("recipeName", result.title),
                             Entry("created_at", TimeValue(result.created_at))>>),
                             details)
                     IN  StoreOutcome(Response(200, JSONstringify(recipe)), "recipe", tr, rows)}
        ELSE
            {caught(<<DbCall("SELECT all", TRUE)>>)} \cup
            {LET tr == <<DbCall("SELECT all", FALSE)>>
                 recipes == [i \in DOMAIN results |-> recipes_summary(results[i])]
             IN  IF \E i \in DOMAIN recipes : recipes[i].threw THEN caught(tr)
                 ELSE StoreOutcome(
                     Response(200, JSONstringify(Obj(<<
                         Entry("success", Bool(TRUE)),
                         Entry("count", Num(ToString(Len(recipes)))),
                         Entry("recipes", Arr([i \in DOMAIN recipes |-> recipes[i].v]))>>))),
                     "list", tr, rows)
             : results \in OrderedByCreatedDesc(rows)}

(***************************************************************************)
(* GET /api/recipe: the revision that converts the keys of details to      *)
(* camelCase, and the plain revision.                                      *)
(***************************************************************************)
Lower == <<"a", "b", "c", "d", "e", "f", "g", "h", "i", "j", "k", "l", "m",
           "n", "o", "p", "q", "r", "s", "t", "u", "v", "w", "x", "y", "z">>
Upper == <<"A", "B", "C", "D", "E", "F", "G", "H", "I", "J", "K", "L", "M",
           "N", "O", "P", "Q", "R", "S", "T", "U", "V", "W", "X", "Y", "Z">>
IsLower(c) == \E i \in DOMAIN Lower : Lower[i] = c
toUpperCase(c) == Upper[CHOOSE i \in DOMAIN Lower : Lower[i] = c]

RECURSIVE camelKey(_)
\* key.replace(/_([a-z])/g, (_, letter) => letter.toUpperCase())
camelKey(key) ==
    IF key = "" THEN ""
    ELSE IF Len(key) >= 2 /\ SubSeq(key, 1, 1) = "_" /\ IsLower(SubSeq(key, 2, 2))
    THEN toUpperCase(SubSeq(key, 2, 2)) \o camelKey(SubstringFrom(key, 2))
    ELSE SubSeq(key, 1, 1) \o camelKey(SubstringFrom(key, 1))

RECURSIVE toCamelCase(_)
RECURSIVE camelReduce(_, _)
\* Object.keys(obj).reduce((acc, key) => { acc[camelKey] = toCamelCase(obj[key]) }, {})
camelReduce(acc, entries) ==
    IF entries = <<>> THEN acc
    ELSE camelReduce(Put(acc, camelKey(Head(entries).key), toCamelCase(Head(entries).val)),
                     Tail(entries))

toCamelCase(obj) ==
    IF obj.kind = "array"
    THEN [obj EXCEPT !.kids = [i \in DOMAIN obj.kids |->
                                  Entry(obj.kids[i].key, toCamelCase(obj.kids[i].val))]]
    ELSE IF obj.kind = "object" THEN camelReduce(Obj(<<>>), obj.kids)
    ELSE obj

\* The revision that converts the keys.
recipe_onRequestGet_camel(req, rows) ==
    LET id == req.id
        tr == <<DbCall("SELECT first", FALSE)>>
        hits == RowsWithId(rows, id.value)
        internal(t) == StoreOutcome(
            JSONError(500, <<Entry("error", Str("internal server error"))>>),
            "catch", t, rows)
    IN  IF ~(id.present /\ id.value # "")
        THEN {StoreOutcome(JSONError(400, <<Entry("error", Str("Recipe ID is required"))>>),
                           "noId", <<>>, rows)}
        ELSE
            {internal(<<DbCall("SELECT first", TRUE)>>)} \cup
            {IF hits = {}
             THEN StoreOutcome(JSONError(404, <<Entry("error", Str("not found"))>>),
                               "notFound", tr, rows)
             ELSE
             LET result == rows[CHOOSE i \in hits : TRUE]
             IN  IF ~result.details.wf THEN internal(tr)     \* JSON.parse throws
                 ELSE
                 LET details == JSONparse(result.details)
                     camelDetails == toCamelCase(details)
                     recipe == Spread(Obj(<<
                         Entry("id", IdValue(result.id)),
                         Entry("name", result.title),
                         Entry("title", result.title),
                         Entry("recipeName", result.title),
                         Entry("category", result.category),
                         Entry("createdAt", TimeValue(result.created_at))>>),
                         camelDetails)
                 IN  StoreOutcome(Response(200, JSONstringify(recipe)), "recipe", tr, rows)}

\* A bug the fetch could have: the row is used without the check that there
\* is one, so that reading result.details of null throws.
recipe_onRequestGet_plain_noRowCheck(req, rows) ==
    LET id == req.id
        tr == <<DbCall("SELECT first", FALSE)>>
        hits == RowsWithId(rows, id.value)
        internal(t) == StoreOutcome(
            JSONError(500, <<Entry("error", Str("internal server error"))>>),
            "catch", t, rows)
    IN  IF ~(id.present /\ id.value # "")
        THEN {StoreOutcome(JSONError(400, <<Entry("error", Str("Recipe ID is required"))>>),
                           "noId", <<>>, rows)}
        ELSE
            {internal(<<DbCall("SELECT first", TRUE)>>)} \cup
            {IF hits = {} THEN internal(tr)
             ELSE
             LET result == rows[CHOOSE i \in hits : TRUE]
             IN  IF ~result.details.wf THEN internal(tr)
                 ELSE
                 LET details == JSONparse(result.details)
                     recipe == Spread(Obj(<<
                         Entry("id", IdValue(result.id)),
                         Entry("name", result.title),
                         Entry("title", result.title),
                         Entry("recipeName", result.title),
                         Entry("category", result.category),
                         Entry("created_at", TimeValue(result.created_at))>>),
                         details)
                 IN  StoreOutcome(Response(200, JSONstringify(recipe)), "recipe", tr, rows)}

\* The plain revision.
recipe_onRequestGet_plain(req, rows) ==
    LET id == req.id
        tr == <<DbCall("SELECT first", FALSE)>>
        hits == RowsWithId(rows, id.value)
        internal(t) == StoreOutcome(
            JSONError(500, <<Entry("error", Str("internal server error"))>>),
            "catch", t, rows)
    IN  IF ~(id.present /\ id.value # "")
        THEN {StoreOutcome(JSONError(400, <<Entry("error", Str("Recipe ID is required"))>>),
                           "noId", <<>>, rows)}
        ELSE
            {internal(<<DbCall("SELECT first", TRUE)>>)} \cup
            {IF hits = {}
             THEN StoreOutcome(JSONError(404, <<Entry("error", Str("not found"))>>),
                               "notFound", tr, rows)
             ELSE
             LET result == rows[CHOOSE i \in hits : TRUE]
             IN  IF ~result.details.wf THEN internal(tr)     \* JSON.parse throws
                 ELSE
                 LET details == JSONparse(result.details)
                     recipe == Spread(Obj(<<
                         Entry("id", IdValue(result.id)),
                         Entry("name", result.title),
                         Entry("title", result.title),
                         Entry("recipeName", result.title),
                         Entry("category", result.category),
                         Entry("created_at", TimeValue(result.created_at))>>),
                         details)
                 IN  StoreOutcome(Response(200, JSONstringify(recipe)), "recipe", tr, rows)}

(***************************************************************************)
(* GET /api/recipe behind a session.                                       *)
(***************************************************************************)
EndsWith(str, p) == Len(str) >= Len(p) /\ SubSeq(str, Len(str) - Len(p) + 1, Len(str)) = p

\* request.headers.get('Cookie')?.match(/session=([^;]+)/): the expression is
\* not anchored, so the leftmost pair whose name ends in "session" and whose
\* value is not empty matches.
sessionMatch(cookieHeader) ==
    LET hits == {i \in 1..Len(cookieHeader.pairs) :
                    /\ EndsWith(cookieHeader.pairs[i].name, "session")
                    /\ cookieHeader.pairs[i].value.raw # ""}
    IN  IF hits = {} THEN NullString
        ELSE cookieHeader.pairs[CHOOSE i \in hits : \A j \in hits : i <= j].value

\* env.RECIPES_KV.get(key, 'json')
KvGet(key, ans) == [op |-> "kv", arg |-> key, ans |-> ans]

\* A bug the handler could have: the row is looked up by id alone.
recipe_onRequestGet_session_anyOwner(req, rows, kvAnswers) ==
    LET id == req.id
        json(st, msg) == JSONError(st, <<Entry("error", Str(msg))>>)
        sessionCookie == sessionMatch(req.cookie)
    IN  IF ~(id.present /\ id.value # "")
        THEN {StoreOutcome(json(400, "Recipe ID is required"), "noId", <<>>, rows)}
        ELSE IF sessionCookie.null
        THEN {StoreOutcome(json(401, "not authorized"), "noSession", <<>>, rows)}
        ELSE UNION {
            LET kv == <<KvGet("session:" \o sessionCookie.raw, a)>>
            IN  IF a.threw \/ ~a.body.wf
                THEN {StoreOutcome(json(500, "internal server error"), "catch", kv, rows)}
                ELSE
                LET sessionData == JSONparse(a.body)
                    hits == RowsWithId(rows, id.value)
                    tr == kv \o <<DbCall("SELECT first", FALSE)>>
                IN  IF ~Truthy(sessionData) \/ ~Truthy(Get(sessionData, "userId"))
                    THEN {StoreOutcome(json(401, "not authorized"), "noUser", kv, rows)}
                    ELSE
                    {StoreOutcome(json(500, "internal server error"), "catch",
                                  kv \o <<DbCall("SELECT first", TRUE)>>, rows),
                     IF hits = {}
                     THEN StoreOutcome(json(404, "not found"), "notFound", tr, rows)
                     ELSE LET recipe == rows[CHOOSE i \in hits : TRUE]
                          IN  StoreOutcome(
                                 Response(200, JSONstringify(Obj(<<
                                     Entry("id", IdValue(recipe.id)),
                                     Entry("title", recipe.title),
                                     Entry("ingredients", Undef),
                                     Entry("instructions", Undef),
                                     Entry("created_at", TimeValue(recipe.created_at))>>))),
                                 "recipe", tr, rows)}
            : a \in kvAnswers}

\* WHERE id = ? AND user_id = ?: a row whose user_id is NULL matches no user.
\* The statement throws on a table that has no user_id column.
recipe_onRequestGet_session(req, rows, kvAnswers) ==
    LET id == req.id
        json(st, msg) == JSONError(st, <<Entry("error", Str(msg))>>)
        sessionCookie == sessionMatch(req.cookie)
    IN  IF ~(id.present /\ id.value # "")
        THEN {StoreOutcome(json(400, "Recipe ID is required"), "noId", <<>>, rows)}
        ELSE IF sessionCookie.null
        THEN {StoreOutcome(json(401, "not authorized"), "noSession", <<>>, rows)}
        ELSE UNION {
            LET kv == <<KvGet("session:" \o sessionCookie.raw, a)>>
            IN  IF a.threw \/ ~a.body.wf
                THEN {StoreOutcome(json(500, "internal server error"), "catch", kv, rows)}
                ELSE
                LET sessionData == JSONparse(a.body)
                    hits == {i \in RowsWithId(rows, id.value) :
                                rows[i].user_id = Get(sessionData, "userId")}
                    tr == kv \o <<DbCall("SELECT first", FALSE)>>
                IN  IF ~Truthy(sessionData) \/ ~Truthy(Get(sessionData, "userId"))
                    THEN {StoreOutcome(json(401, "not authorized"), "noUser", kv, rows)}
                    ELSE
                    {StoreOutcome(json(500, "internal server error"), "catch",
                                  kv \o <<DbCall("SELECT first", TRUE)>>, rows),
                     IF hits = {}
                     THEN StoreOutcome(json(404, "not found"), "notFound", tr, rows)
                     ELSE LET recipe == rows[CHOOSE i \in hits : TRUE]
                          IN  StoreOutcome(
                                 Response(200, JSONstringify(Obj(<<
                                     Entry("id", IdValue(recipe.id)),
                                     Entry("title", recipe.title),
                                     Entry("ingredients", Undef),
                                     Entry("instructions", Undef),
                                     Entry("created_at", TimeValue(recipe.created_at))>>))),
                                 "recipe", tr, rows)}
            : a \in kvAnswers}

(***************************************************************************)
(* The requests and the introspection answers of the auth flow.            *)
(***************************************************************************)
\* An object literal in which a property given as undefined is absent.
MkObj(entries) == StripUndef(Obj(entries))

\* tokeninfo bodies that pass the checks of verifyGoogleToken ...
ValidInfos ==
    {MkObj(<<Entry("aud", Str(CLIENT_ID)), Entry("email", e), Entry("name", n),
             Entry("given_name", g), Entry("picture", Str("p.png")),
             Entry("email_verified", Str("true"))>>) :
        e \in {Undef, Str("g@x.com")},
        n \in {Undef, Str(""), Str("Gina")},
        g \in {Undef, Str("Gi")}}

\* ... and bodies that do not: another audience, no audience, an error field.
InvalidInfos ==
    {MkObj(<<Entry("aud", Str("other.apps.googleusercontent.com")),
             Entry("email", Str("o@x.com")), Entry("name", Str("Otto"))>>),
     MkObj(<<Entry("email", Str("o@x.com")), Entry("name", Str("Otto"))>>),
     MkObj(<<Entry("error", Str("invalid_token")), Entry("aud", Str(CLIENT_ID)),
             Entry("email", Str("o@x.com"))>>),
     MkObj(<<Entry("error", Str("invalid_token")),
             Entry("error_description", Str("Invalid Value"))>>)}

Answers ==
    {FetchThrows,
     Reply(FALSE, JSONstringify(MkObj(<<Entry("error", Str("invalid_token"))>>))),
     Reply(FALSE, JSONstringify(MkObj(<<Entry("aud", Str(CLIENT_ID)),
                                        Entry("email", Str("g@x.com"))>>))),
     Reply(TRUE, BadJSON),
     Reply(TRUE, JSONstringify(Null))}
    \cup {Reply(TRUE, JSONstringify(d)) : d \in ValidInfos \cup InvalidInfos}

AuthHeaders == {NoHeader, Header("Bearer tA"), Header("Basic tA")}

\* Payloads of a CF_Authorization token.
CFPayloads ==
    {MkObj(<<Entry("email", e), Entry("sub", sb), Entry("name", n),
             Entry("given_name", g), Entry("family_name", f),
             Entry("email_verified", ev)>>) :
        e \in {Undef, Str(""), Str("a@b.com")},
        sb \in {Undef, Str("sub1")},
        n \in {Undef, Str(""), Str("Ann")},
        g \in {Undef, Str("A")},
        f \in {Undef, Str("Fam")},
        ev \in {Bool(FALSE)}}

JWT(p) == Dotted("h.p.s", <<OpaqueSeg, Seg(TRUE, JSONstringify(p)), OpaqueSeg>>)

\* Values of the CF_Authorization cookie: tokens that do not decode, and the
\* three-part tokens whose payload is JSON.
BrokenCFValues ==
    {Dotted("h.p", <<OpaqueSeg, Seg(TRUE, JSONstringify(Obj(<<>>)))>>),
     Dotted("h.p.s.x", <<OpaqueSeg, Seg(TRUE, JSONstringify(Obj(<<>>))),
                         OpaqueSeg, OpaqueSeg>>),
     Dotted("h.!.s", <<OpaqueSeg, Seg(FALSE, BadJSON), OpaqueSeg>>),
     Dotted("h.nonjson.s", <<OpaqueSeg, Seg(TRUE, BadJSON), OpaqueSeg>>),
     JWT(Null)}
CFValues == BrokenCFValues \cup {JWT(Num("5"))} \cup {JWT(p) : p \in CFPayloads}

OptCookie(n, v) == IF v.null THEN <<>> ELSE <<Cookie(n, v)>>

CookieHeadersOf(cfValues) ==
    {NoCookieHeader, CookieHeader(<<>>), CookieHeader(<<Cookie("session", Token("s1"))>>)}
    \cup {CookieHeader(OptCookie("CF_Authorization", cf) \o OptCookie("google_token", g)
                       \o OptCookie("authToken", a)) :
            cf \in {NullString} \cup cfValues,
            g \in {NullString, Token(""), Token("tB")},
            a \in {NullString, Token("tC")}}

AuthRequestsOf(h, cfValues) ==
    {Request(h, auth, c, NoHeader, BadJSON, NoParam) :
        auth \in AuthHeaders, c \in CookieHeadersOf(cfValues)}

VerifyRequests ==
    {Request("verify-google", NoHeader, NoCookieHeader, Header("application/json"), b,
             NoParam) :
        b \in {BadJSON, JSONstringify(Null), JSONstringify(Obj(<<>>)),
               JSONstringify(Obj(<<Entry("token", Str(""))>>)),
               JSONstringify(Num("5")),
               JSONstringify(Obj(<<Entry("token", Num("5"))>>)),
               JSONstringify(Obj(<<Entry("token", Str("tA"))>>))}}

(***************************************************************************)
(* Actions.                                                                *)
(***************************************************************************)
Init ==
    /\ store = <<>>
    /\ pc = "idle"
    /\ request = NoRequest
    /\ response = NoResponse
    /\ trace = <<>>
    /\ accepted = <<>>
    /\ earlier = NoExchange
    /\ header = NoPage

\* The handler answers one request with one of its outcomes.
Answer(req, outcomes) ==
    /\ pc = "idle"
    /\ \E o \in outcomes :
          /\ response' = o.resp
          /\ trace' = o.tr
    /\ request' = req
    /\ pc' = "responded"

AuthMe_r1(cfValues) ==
    \E req \in AuthRequestsOf("auth/me r1", cfValues) :
        /\ Answer(req, onRequestGet_r1(req, Answers))
        /\ UNCHANGED <<store, accepted, earlier, header>>

AuthMe_r2(cfValues) ==
    \E req \in AuthRequestsOf("auth/me r2", cfValues) :
        /\ Answer(req, onRequestGet_r2(req, Answers))
        /\ UNCHANGED <<store, accepted, earlier, header>>

\* The introspection answers of POST /api/verify-google: those above, and a
\* body whose error field is empty.
VerifyAnswers ==
    Answers \cup
    {Reply(TRUE, JSONstringify(MkObj(<<Entry("error", Str("")), Entry("aud", Str(CLIENT_ID)),
                                       Entry("email", Str("g@x.com"))>>)))}

VerifyGoogle ==
    \E req \in VerifyRequests :
        /\ Answer(req, verifyGoogle_onRequestPost(req, VerifyAnswers))
        /\ UNCHANGED <<store, accepted, earlier, header>>

\* The runtime drops the request context once the response is sent.
Release ==
    /\ pc = "responded"
    /\ pc' = "idle"
    /\ request' = NoRequest
    /\ response' = NoResponse
    /\ trace' = <<>>
    /\ UNCHANGED <<store, accepted, earlier, header>>

\* The same, and the exchange is remembered by the observer.
ReleaseRecording ==
    /\ pc = "responded"
    /\ request.handler \in {"auth/me r1", "auth/me r2"}
    /\ pc' = "idle"
    /\ earlier' = Exchange(request, trace, response)
    /\ request' = NoRequest
    /\ response' = NoResponse
    /\ trace' = <<>>
    /\ UNCHANGED <<store, accepted, header>>

NextAuth == AuthMe_r1(CFValues) \/ AuthMe_r2(CFValues) \/ VerifyGoogle \/ Release

SpecAuth == Init /\ [][NextAuth]_vars

\* Requests of GET /api/auth/me that are sent again and again.
RepeatAnswers ==
    {FetchThrows,
     Reply(FALSE, JSONstringify(MkObj(<<Entry("error", Str("invalid_token"))>>))),
     Reply(TRUE, JSONstringify(MkObj(<<Entry("aud", Str("other.apps.googleusercontent.com")),
                                       Entry("email", Str("o@x.com"))>>))),
     Reply(TRUE, JSONstringify(MkObj(<<Entry("aud", Str(CLIENT_ID)),
                                       Entry("email", Str("g@x.com")),
                                       Entry("name", Str("Gina"))>>)))}
RepeatRequests(h) ==
    {Request(h, auth, c, NoHeader, BadJSON, NoParam) :
        auth \in {NoHeader, Header("Bearer tA")},
        c \in {NoCookieHeader,
               CookieHeader(<<Cookie("google_token", Token("tB"))>>),
               CookieHeader(<<Cookie("CF_Authorization",
                                     JWT(MkObj(<<Entry("email", Str("a@b.com"))>>)))>>)}}

AuthAgain_r1 ==
    \E req \in RepeatRequests("auth/me r1") :
        /\ Answer(req, onRequestGet_r1(req, RepeatAnswers))
        /\ UNCHANGED <<store, accepted, earlier, header>>

AuthAgain_r2 ==
    \E req \in RepeatRequests("auth/me r2") :
        /\ Answer(req, onRequestGet_r2(req, RepeatAnswers))
        /\ UNCHANGED <<store, accepted, earlier, header>>

NextRepeat == AuthAgain_r1 \/ AuthAgain_r2 \/ Release \/ ReleaseRecording

SpecRepeat == Init /\ [][NextRepeat]_vars

(***************************************************************************)
(* The requests of the recipe flow.                                        *)
(***************************************************************************)
MaxRecipes == 2
MaxRoundTrip == 1

\* Payloads for the title rules and the round trip: every combination of the
\* three title fields, alone or with more fields.
MoreFields ==
    {<<>>,
     <<Entry("prepTime", Str("10")), Entry("prep_time", Str("5"))>>,
     <<Entry("id", Str("99"))>>,
     <<Entry("createdAt", Str("X")), Entry("created_at", Str("Y"))>>}
TitlePayloads ==
    {MkObj(<<Entry("recipeName", r), Entry("name", n), Entry("title", t)>> \o more) :
        r \in {Undef, Str(""), Str("R")},
        n \in {Undef, Str(""), Str("N")},
        t \in {Undef, Str("T")},
        more \in MoreFields}

Ten == "0123456789"
Fifty == Ten \o Ten \o Ten \o Ten \o Ten
\* A description of 101 characters, one of 100 and a short one.
LongText == Fifty \o Fifty \o "x"
FullText == Fifty \o Fifty
ShortText == "Quick soup"

\* Payloads for the listing: optional fields absent, empty, long, not a string.
ListPayloads ==
    {MkObj(<<Entry("name", Str("N"))>>),
     MkObj(<<Entry("name", Str("N")), Entry("description", Str(""))>>),
     MkObj(<<Entry("title", Str("T")), Entry("author", Str("Al")),
             Entry("description", Str(ShortText)), Entry("prepTime", Str("10"))>>),
     MkObj(<<Entry("recipeName", Str("R")), Entry("description", Str(LongText)),
             Entry("prep_time", Str("5")), Entry("cuisine", Str("Thai")),
             Entry("servings", Num("0"))>>),
     MkObj(<<Entry("name", Str("N")), Entry("description", Str(FullText))>>),
     MkObj(<<Entry("name", Str("N")), Entry("description", Num("5"))>>),
     MkObj(<<Entry("author", Str("Al"))>>)}

\* What request.json() makes of a body that is not an object.
OtherBodies ==
    {BadJSON, JSONstringify(Null), JSONstringify(Num("5")), JSONstringify(Str("soup")),
     JSONstringify(Arr(<<>>))}

FormFields(o) == \A i \in DOMAIN o.kids : o.kids[i].val.kind = "string"

\* POST requests: JSON bodies, the objects a form can carry, and requests of
\* another content type or none.
PostRequests(payloads) ==
    {Request("POST recipes", NoHeader, NoCookieHeader, Header(ct), b, NoParam) :
        ct \in {"application/json", "application/json; charset=utf-8"},
        b \in OtherBodies \cup {JSONstringify(o) : o \in payloads}}
    \cup
    {Request("POST recipes", NoHeader, NoCookieHeader,
             Header("application/x-www-form-urlencoded"), JSONstringify(o), NoParam) :
        o \in {q \in payloads : FormFields(q)}}
    \cup
    {Request("POST recipes", NoHeader, NoCookieHeader, ct,
             JSONstringify(MkObj(<<Entry("name", Str("N"))>>)), NoParam) :
        ct \in {NoHeader, Header(""), Header("text/plain")}}

\* GET requests: no id, an empty id, and the ids 1 .. cap + 1.
GetRequests(h, cap) ==
    {Request(h, NoHeader, NoCookieHeader, NoHeader, BadJSON, id) :
        id \in {NoParam, Param("")} \cup {Param(ToString(n)) : n \in 1..(cap + 1)}}

\* A handler that works on the table answers one request.
AnswerStore(req, outcomes) ==
    /\ pc = "idle"
    /\ \E o \in outcomes :
          /\ response' = o.resp
          /\ trace' = o.tr
          /\ store' = o.rows
          /\ accepted' = IF o.resp.status = 201
                         THEN Append(accepted,
                                     [id |-> Get(JSONparse(o.resp.body), "id"),
                                      payload |-> JSONparse(req.body)])
                         ELSE accepted
    /\ request' = req
    /\ UNCHANGED <<earlier, header>>
    /\ pc' = "responded"

SubmitRecipe(payloads, cap) ==
    /\ Len(store) < cap
    /\ \E req \in PostRequests(payloads) :
          AnswerStore(req, recipes_onRequestPost(req, store))

RecipesGet(cap) ==
    \E req \in GetRequests("GET recipes", cap) :
        AnswerStore(req, recipes_onRequestGet(req, store))

RecipeGetCamel(cap) ==
    \E req \in GetRequests("GET recipe camel", cap) :
        AnswerStore(req, recipe_onRequestGet_camel(req, store))

RecipeGetPlain(cap) ==
    \E req \in GetRequests("GET recipe plain", cap) :
        AnswerStore(req, recipe_onRequestGet_plain(req, store))

\* Submissions of every shape, read back one at a time.
NextSubmit ==
    \/ SubmitRecipe(TitlePayloads, MaxRoundTrip)
    \/ RecipesGet(MaxRoundTrip)
    \/ RecipeGetCamel(MaxRoundTrip)
    \/ RecipeGetPlain(MaxRoundTrip)
    \/ Release

SpecSubmit == Init /\ [][NextSubmit]_vars

\* Several recipes, listed and fetched.
NextRecipes ==
    \/ SubmitRecipe(ListPayloads, MaxRecipes)
    \/ RecipesGet(MaxRecipes)
    \/ RecipeGetCamel(MaxRecipes)
    \/ RecipeGetPlain(MaxRecipes)
    \/ Release

SpecRecipes == Init /\ [][NextRecipes]_vars

\* A table that already holds a row written by another program, with a
\* details text that is not JSON.
InitSeeded ==
    /\ store \in {<<>>, <<Row(1, Str("Legacy"), BadJSON, 0)>>}
    /\ pc = "idle"
    /\ request = NoRequest
    /\ response = NoResponse
    /\ trace = <<>>
    /\ accepted = <<>>
    /\ earlier = NoExchange
    /\ header = NoPage

SpecSeeded == InitSeeded /\ [][NextRecipes]_vars

\* What the session store answers: the read throws, no such session, a
\* session without a user, a session of a user.
KvAnswers ==
    {FetchThrows, Reply(TRUE, JSONstringify(Null)), Reply(TRUE, JSONstringify(Obj(<<>>))),
     Reply(TRUE, JSONstringify(Obj(<<Entry("userId", Str(""))>>))),
     Reply(TRUE, JSONstringify(Obj(<<Entry("userId", Str("u1"))>>)))}

SessionRequests(cap) ==
    {Request("GET recipe session", NoHeader, c, NoHeader, BadJSON, id) :
        c \in {NoCookieHeader,
               CookieHeader(<<Cookie("session", Token(""))>>),
               CookieHeader(<<Cookie("theme", Token("dark")), Cookie("session", Token("s1"))>>),
               CookieHeader(<<Cookie("xsession", Token("s9"))>>)},
        id \in {NoParam} \cup {Param(ToString(n)) : n \in 1..(cap + 1)}}

RecipeGetSession(cap) ==
    \E req \in SessionRequests(cap) :
        AnswerStore(req, recipe_onRequestGet_session(req, store, KvAnswers))

\* Every handler, each with the requests that make its external calls fail.
CorePayloads ==
    {MkObj(<<Entry("name", Str("N"))>>),
     MkObj(<<Entry("name", Str("N")), Entry("description", Num("5"))>>)}
CoreCFValues ==
    {Dotted("h.!.s", <<OpaqueSeg, Seg(FALSE, BadJSON), OpaqueSeg>>),
     JWT(Null),
     JWT(MkObj(<<Entry("email", Str("a@b.com")), Entry("name", Str("Ann"))>>))}

NextAll ==
    \/ AuthMe_r1(CoreCFValues)
    \/ AuthMe_r2(CoreCFValues)
    \/ VerifyGoogle
    \/ SubmitRecipe(CorePayloads, MaxRoundTrip)
    \/ RecipesGet(MaxRoundTrip)
    \/ RecipeGetCamel(MaxRoundTrip)
    \/ RecipeGetPlain(MaxRoundTrip)
    \/ RecipeGetSession(MaxRoundTrip)
    \/ Release

SpecAll == InitSeeded /\ [][NextAll]_vars

\* A table whose rows belong to users, read through the session-gated
\* revision; rows submitted through POST /api/recipes belong to nobody.
InitOwned ==
    /\ store = <<OwnedRow(1, Str("Soup"), JSONstringify(Obj(<<>>)), 0, "u1"),
                 OwnedRow(2, Str("Stew"), JSONstringify(Obj(<<>>)), 0, "u2")>>
    /\ pc = "idle"
    /\ request = NoRequest
    /\ response = NoResponse
    /\ trace = <<>>
    /\ accepted = <<>>
    /\ earlier = NoExchange
    /\ header = NoPage

NextSession ==
    \/ SubmitRecipe(CorePayloads, MaxRecipes + 1)
    \/ RecipeGetSession(MaxRecipes + 1)
    \/ Release

SpecSession == InitOwned /\ [][NextSession]_vars

(***************************************************************************)
(* Identity resolution: what the claims speak of.                          *)
(***************************************************************************)
AuthResponded == pc = "responded" /\ request.handler \in {"auth/me r1", "auth/me r2"}

HasBearer == request.authorization.present /\ request.authorization.value = "Bearer tA"
BearerToken == "tA"

CookieRead == \E i \in DOMAIN trace : trace[i] = ReadHeader("Cookie")
CookieReadAt == CHOOSE i \in DOMAIN trace : trace[i] = ReadHeader("Cookie")

\* The introspection call for the bearer token, and the one for a cookie token.
BearerFetches ==
    {i \in DOMAIN trace : /\ trace[i].op = "fetch"
                          /\ \A j \in 1..i : trace[j] # ReadHeader("Cookie")}
CookieFetches ==
    {i \in DOMAIN trace : /\ trace[i].op = "fetch"
                          /\ \E j \in 1..i : trace[j] = ReadHeader("Cookie")}

\* The answer is ok, JSON, without an error field and with our audience.
Passes(ans) ==
    /\ ~ans.threw /\ ans.ok /\ ans.body.wf
    /\ ans.body.v.kind = "object"
    /\ ~HasKey(ans.body.v, "error")
    /\ Get(ans.body.v, "aud") = Str(CLIENT_ID)

\* The answer is ok and JSON, and its audience is not ours.
AudMismatch(ans) ==
    /\ ~ans.threw /\ ans.ok /\ ans.body.wf
    /\ ans.body.v.kind = "object"
    /\ Get(ans.body.v, "aud") # Str(CLIENT_ID)

\* The CF_Authorization cookie of the request, if it has one.
CFCookies ==
    {i \in DOMAIN request.cookie.pairs :
        request.cookie.pairs[i].name = "CF_Authorization"}
CFCookie == request.cookie.pairs[CHOOSE i \in CFCookies : TRUE].value
\* Three dot-separated parts, the middle one base64url of a JSON object.
CFWellFormed ==
    /\ request.cookie.present
    /\ CFCookies # {}
    /\ Len(CFCookie.parts) = 3
    /\ CFCookie.parts[2].b64
    /\ CFCookie.parts[2].text.wf
    /\ CFCookie.parts[2].text.v.kind = "object"
CFPayload == CFCookie.parts[2].text.v

\* A property of the JSON body of the response.
BodyGet(k) == Get(response.body.v, k)
\* The body is exactly the JSON of an identity with these four values.
BodyIsIdentity(email, name, picture, verified) ==
    /\ response.body.wf
    /\ BodyGet("email") = email
    /\ BodyGet("name") = name
    /\ BodyGet("picture") = picture
    /\ BodyGet("email_verified") = verified
    /\ Keys(response.body.v) \subseteq {"email", "name", "picture", "email_verified"}

\* C1: a request with a bearer token that passes introspection and a
\* well-formed CF_Authorization cookie is answered 200 with the identity of
\* the introspection response, and the Cookie header is never read.
C1_BearerWins ==
    (AuthResponded /\ HasBearer /\ CFWellFormed
        /\ \E i \in BearerFetches : Passes(trace[i].ans))
    => /\ BearerFetches # {}
       /\ LET data == trace[CHOOSE i \in BearerFetches : TRUE].ans.body.v
          IN  /\ response.status = 200
              /\ response.ret = "bearer"
              /\ BodyIsIdentity(Get(data, "email"),
                                IF Truthy(Get(data, "name")) THEN Get(data, "name")
                                ELSE Get(data, "email"),
                                Get(data, "picture"), Get(data, "email_verified"))
       /\ ~CookieRead
       /\ \A i \in DOMAIN trace : trace[i].op # "parseJWT"
       /\ trace[CHOOSE i \in BearerFetches : TRUE].arg = BearerToken

\* A bearer request for which the case of C1 arises in the second revision.
C1_Witness ==
    /\ AuthResponded /\ request.handler = "auth/me r2" /\ HasBearer /\ CFWellFormed
    /\ \E i \in BearerFetches : Passes(trace[i].ans)
    /\ response.status = 200
    /\ BodyGet("name") = Str("Gina")
    /\ Get(CFPayload, "name") = Str("Ann")

\* C2: an introspection answer whose aud is not the client id never yields
\* the identity of the response: after the bearer call the resolver goes on to
\* read the Cookie header, after the cookie-token call it answers 401.
C2_AudMismatchRejected ==
    AuthResponded =>
        /\ \A i \in BearerFetches :
              AudMismatch(trace[i].ans) =>
                  /\ response.ret # "bearer"
                  /\ CookieRead /\ CookieReadAt > i
        /\ \A i \in CookieFetches :
              AudMismatch(trace[i].ans) =>
                  /\ response.ret # "cookieToken"
                  /\ response.status = 401

\* Both calls of one request are answered with a foreign audience.
C2_Witness ==
    /\ AuthResponded
    /\ \E i \in BearerFetches : AudMismatch(trace[i].ans) /\ HasKey(trace[i].ans.body.v, "aud")
    /\ \E i \in CookieFetches : AudMismatch(trace[i].ans) /\ HasKey(trace[i].ans.body.v, "aud")
    /\ response.status = 401

RECURSIVE FirstPresent(_, _, _)
\* The value of the first of keys that o has, else dflt.
FirstPresent(o, keys, dflt) ==
    IF keys = <<>> THEN dflt
    ELSE IF HasKey(o, Head(keys)) THEN Get(o, Head(keys))
    ELSE FirstPresent(o, Tail(keys), dflt)

RECURSIVE FirstNonEmpty(_, _, _)
\* The value of the first of keys whose value in o is not empty, else dflt.
FirstNonEmpty(o, keys, dflt) ==
    IF keys = <<>> THEN dflt
    ELSE IF HasKey(o, Head(keys)) /\ Get(o, Head(keys)) \notin {Str(""), Null}
    THEN Get(o, Head(keys))
    ELSE FirstNonEmpty(o, Tail(keys), dflt)

NoBearerSuccess == \A i \in BearerFetches : ~Passes(trace[i].ans)

\* C3 as stated: with no successful bearer step, a well-formed
\* CF_Authorization cookie resolves to the payload's email, the first PRESENT
\* of name, given_name, family_name, email (else "User") as name, and
\* email_verified true.
C3_FirstPresent ==
    (AuthResponded /\ NoBearerSuccess /\ CFWellFormed)
    => /\ response.status = 200
       /\ response.ret = "cf"
       /\ HasKey(CFPayload, "email") => BodyGet("email") = Get(CFPayload, "email")
       /\ BodyGet("name") =
             FirstPresent(CFPayload, <<"name", "given_name", "family_name", "email">>,
                          Str("User"))
       /\ BodyGet("email_verified") = Bool(TRUE)

\* C3 amended: the name is the first NON-EMPTY of name, given_name,
\* family_name, email (else "User"), the email the first non-empty of email,
\* sub (else "unknown@user"), email_verified is true whatever the payload
\* says, and no introspection call is made for the cookie.
C3_FirstNonEmpty ==
    (AuthResponded /\ NoBearerSuccess /\ CFWellFormed)
    => /\ response.status = 200
       /\ response.ret = "cf"
       /\ BodyIsIdentity(
             FirstNonEmpty(CFPayload, <<"email", "sub">>, Str("unknown@user")),
             FirstNonEmpty(CFPayload, <<"name", "given_name", "family_name", "email">>,
                           Str("User")),
             Null, Bool(TRUE))
       /\ CookieFetches = {}

\* The example of the specification: payload {email: "a@b.com", given_name:
\* "A"} (which also says email_verified: false) resolves to a@b.com, A, true.
C3_Witness ==
    /\ AuthResponded /\ ~HasBearer /\ CFWellFormed
    /\ Get(CFPayload, "email") = Str("a@b.com")
    /\ Get(CFPayload, "given_name") = Str("A")
    /\ ~HasKey(CFPayload, "name")
    /\ Get(CFPayload, "email_verified") = Bool(FALSE)
    /\ response.status = 200
    /\ BodyGet("email") = Str("a@b.com")
    /\ BodyGet("name") = Str("A")
    /\ BodyGet("email_verified") = Bool(TRUE)

\* The cookie token the third step introspects: google_token, or authToken
\* when there is no google_token with a value.
CookieValueOf(n) ==
    LET hits == {i \in DOMAIN request.cookie.pairs :
                    /\ request.cookie.pairs[i].name = n
                    /\ request.cookie.pairs[i].value.raw # ""}
    IN  IF hits = {} THEN ""
        ELSE request.cookie.pairs[CHOOSE i \in hits : \A j \in hits : i <= j].value.raw
CookieTokenOf ==
    IF CookieValueOf("google_token") # "" THEN CookieValueOf("google_token")
    ELSE CookieValueOf("authToken")

\* The CF_Authorization cookie decodes: three parts, the middle one base64url
\* of JSON other than null.
CFDecodes ==
    /\ request.cookie.present
    /\ CFCookies # {}
    /\ Len(CFCookie.parts) = 3
    /\ CFCookie.parts[2].b64
    /\ CFCookie.parts[2].text.wf
    /\ ~Nullish(CFCookie.parts[2].text.v)

\* C4: the answer is 401 {error: "Unauthenticated", message} exactly when
\* none of the three steps yields an identity, and 200 with the identity
\* otherwise; every step whose credential is present is tried before 401.
C4_UnauthenticatedIffAllFail ==
    AuthResponded =>
        LET s1 == \E i \in BearerFetches : Passes(trace[i].ans)
            s2 == CFDecodes
            s3 == \E i \in CookieFetches : Passes(trace[i].ans)
        IN  /\ response.status \in {200, 401}
            /\ response.status = 401 <=> ~(s1 \/ s2 \/ s3)
            /\ response.status = 401 =>
                  /\ response.body.wf
                  /\ Keys(response.body.v) = {"error", "message"}
                  /\ BodyGet("error") = Str("Unauthenticated")
            /\ response.status = 200 =>
                  /\ response.body.wf
                  /\ response.body.v.kind = "object"
                  /\ ~HasKey(response.body.v, "error")
            /\ HasBearer => \E i \in BearerFetches :
                                trace[i].arg = BearerToken
            /\ (~s1 /\ ~s2 /\ request.cookie.present /\ CookieTokenOf # "")
                  => \E i \in CookieFetches : trace[i].arg = CookieTokenOf
            /\ (~request.authorization.present /\ ~request.cookie.present)
                  => response.status = 401

\* The bearer call throws, the CF_Authorization cookie does not decode, and
\* the cookie token verifies: the answer is 200, not an error.
C4_Witness ==
    /\ AuthResponded
    /\ \E i \in BearerFetches : trace[i].ans.threw
    /\ CFCookies # {} /\ ~CFDecodes
    /\ \E i \in CookieFetches : Passes(trace[i].ans)
    /\ response.status = 200

(***************************************************************************)
(* The recipe handlers.                                                    *)
(***************************************************************************)
Responded(h) == pc = "responded" /\ request.handler = h
SingleFetches == {"GET recipes", "GET recipe camel", "GET recipe plain"}
RecipeFetches == {"GET recipe camel", "GET recipe plain"}
IdGiven == request.id.present /\ request.id.value # ""
DbCalls == {i \in DOMAIN trace : trace[i].op \in {"INSERT", "SELECT first", "SELECT all"}}
DbThrew == \E i \in DbCalls : trace[i].ans.threw
TitleKeys == <<"recipeName", "name", "title">>
Payload == request.body.v

\* None of name, title, recipeName is present and non-empty in the body.
NoTitleField(v) ==
    \A i \in DOMAIN TitleKeys :
        ~(v.kind = "object" /\ HasKey(v, TitleKeys[i])
          /\ Get(v, TitleKeys[i]) \notin {Str(""), Null})

\* C5: every POST /api/recipes whose parsed body (an object or not) has none
\* of name, title, recipeName present and non-empty is answered 400, no insert
\* is issued and the table holds no row beyond the accepted submissions.
C5_NoTitleRejected ==
    (Responded("POST recipes") /\ request.body.wf /\ NoTitleField(Payload))
    => /\ response.status = 400
       /\ DbCalls = {}
       /\ Len(store) = Len(accepted)

\* The row an accepted submission wrote.
StoredRow == store[Len(store)]
Accepted201 == Responded("POST recipes") /\ response.status = 201

\* C6 as stated: the title written by an accepted submission is
\* recipeName ?? name ?? title, the first of them that is not null/undefined.
C6_TitleFirstPresent ==
    (Accepted201 /\ \E i \in DOMAIN TitleKeys : HasKey(Payload, TitleKeys[i]))
    => StoredRow.title = FirstPresent(Payload, TitleKeys, Str("Untitled Recipe"))

\* C6 amended: the title written by an accepted submission is the first of
\* recipeName, name, title that is not empty; the details column holds the
\* payload, and the returned id is that of the written row.
C6_TitleFirstNonEmpty ==
    Accepted201
    => /\ StoredRow.title = FirstNonEmpty(Payload, TitleKeys, Str("Untitled Recipe"))
       /\ StoredRow.title # Str("")
       /\ StoredRow.details = request.body
       /\ Get(response.body.v, "id") = IdValue(StoredRow.id)

\* A submission with an empty recipeName and name "N" is stored as "N".
C6_Witness ==
    /\ Accepted201
    /\ Get(Payload, "recipeName") = Str("")
    /\ Get(Payload, "name") = Str("N")
    /\ Get(Payload, "title") = Str("T")
    /\ StoredRow.title = Str("N")

\* The accepted submissions the id of the request names.
FetchedSubmissions ==
    {i \in DOMAIN accepted : IdGiven /\ accepted[i].id.s = request.id.value}

\* C7: a single-recipe fetch with the id an accepted submission returned
\* answers (unless the database fails) 200 with every key of the submitted
\* payload at its submitted value, and with name, title and recipeName.
C7_RoundTrip ==
    (pc = "responded" /\ request.handler \in SingleFetches /\ ~DbThrew)
    => \A i \in FetchedSubmissions :
          /\ response.status = 200
          /\ \A k \in Keys(accepted[i].payload) :
                /\ HasKey(response.body.v, k)
                /\ Get(response.body.v, k) = Get(accepted[i].payload, k)
          /\ \A j \in DOMAIN TitleKeys : HasKey(response.body.v, TitleKeys[j])

\* The entries of a listing.
Listing == Get(response.body.v, "recipes")
ListingRow(e) == {i \in DOMAIN store : IdValue(store[i].id) = Get(e.val, "id")}
StoredDescription(i) ==
    IF store[i].details.wf /\ store[i].details.v.kind = "object"
    THEN Get(store[i].details.v, "description")
    ELSE Undef

\* C8: unless the database fails, GET /api/recipes without id answers 200 with
\* one entry per stored row, newest first, count the number of entries, and in
\* each entry summary.description null when the recipe has no description
\* (none, or an empty one) and else a prefix, of at most 100 characters, of
\* the stored description.
C8_Listing ==
    (Responded("GET recipes") /\ ~IdGiven /\ ~DbThrew)
    => /\ response.status = 200
       /\ Get(response.body.v, "count") = Num(ToString(Len(Listing.kids)))
       /\ Len(Listing.kids) = Len(store)
       /\ \A i \in DOMAIN store : \E j \in DOMAIN Listing.kids : i \in ListingRow(Listing.kids[j])
       /\ \A j \in DOMAIN Listing.kids :
             /\ ListingRow(Listing.kids[j]) # {}
             /\ \A i \in ListingRow(Listing.kids[j]) :
                   LET stored == StoredDescription(i)
                       shown == Get(Get(Listing.kids[j].val, "summary"), "description")
                   IN  IF stored \in {Undef, Null, Str("")}
                       THEN shown = Null
                       ELSE /\ shown.kind = "string"
                            /\ Len(shown.s) <= 100
                            /\ stored = Str(shown.s \o SubstringFrom(stored.s, Len(shown.s)))
       /\ \A j, k \in DOMAIN Listing.kids :
             \A a \in ListingRow(Listing.kids[j]), b \in ListingRow(Listing.kids[k]) :
                 j < k => store[a].created_at >= store[b].created_at

\* The rows the id of the request names.
RowsNamed == {i \in DOMAIN store : ToString(store[i].id) = request.id.value}
IsJSONError ==
    /\ response.contentType = "application/json"
    /\ response.body.wf
    /\ response.body.v.kind = "object"
    /\ Get(response.body.v, "error").kind = "string"

\* C9: GET /api/recipe answers 400 before any database call when the id is
\* missing or empty; else 500 when the database call throws; else 404 with a
\* JSON error body when no row has the id; else 500 when the details of the
\* row do not parse; else 200.
C9_FetchStatus ==
    (pc = "responded" /\ request.handler \in RecipeFetches)
    => /\ ~IdGiven => response.status = 400 /\ trace = <<>> /\ IsJSONError
       /\ IdGiven =>
             /\ Len(trace) = 1 /\ trace[1].op = "SELECT first"
             /\ DbThrew => response.status = 500
             /\ (~DbThrew /\ RowsNamed = {}) => response.status = 404 /\ IsJSONError
             /\ (~DbThrew /\ RowsNamed # {}) =>
                   \A i \in RowsNamed :
                      /\ store[i].details.wf => response.status = 200
                      /\ ~store[i].details.wf => response.status = 500
       /\ response.status = 500 => IsJSONError /\ (DbThrew \/ \E i \in RowsNamed : ~store[i].details.wf)

\* After a submission, a fetch of an id no row has is answered 404 although
\* the database call succeeded.
C9_Witness ==
    /\ pc = "responded" /\ request.handler \in RecipeFetches
    /\ store # <<>> /\ accepted # <<>>
    /\ IdGiven /\ RowsNamed = {} /\ ~DbThrew
    /\ response.status = 404

(***************************************************************************)
(* Failures at the handler boundary.                                       *)
(***************************************************************************)
AuthHandlers == {"auth/me r1", "auth/me r2"}
PostHandlers == {"POST recipes", "verify-google"}
ListHandlers == {"GET recipes"}

\* An external call of the request failed: a call threw, the body of an
\* answer that is read as JSON is not JSON, the request body that is parsed is
\* not JSON, or the details of a row that is read are not JSON.
CallFailed(e) ==
    \/ e.ans.threw
    \/ /\ e.op \in {"fetch", "kv"}
       /\ ~e.ans.body.wf
       /\ e.ans.ok \/ request.handler = "verify-google"
BodyParseFailed ==
    /\ request.handler \in PostHandlers
    /\ ~request.body.wf
    /\ request.handler = "POST recipes" => response.ret # "contentType"
DetailsParseFailed ==
    /\ request.handler \in SingleFetches \cup ListHandlers
    /\ ~DbThrew /\ DbCalls # {}
    /\ \E i \in DOMAIN store :
          /\ ~store[i].details.wf
          /\ \/ (request.handler \in ListHandlers /\ ~IdGiven)
             \/ (request.handler \in SingleFetches /\ i \in RowsNamed)
Failed == (\E i \in DOMAIN trace : CallFailed(trace[i])) \/ BodyParseFailed \/ DetailsParseFailed

\* C10 as stated: whenever an external call of a handler fails, the response
\* has a 4xx/5xx status and a JSON error body.
C10_EveryFailureIsAnError ==
    (pc = "responded" /\ Failed) => response.status >= 400 /\ IsJSONError

\* C10 amended: every handler always answers, with a JSON body; every 4xx/5xx
\* answer has a JSON error body; outside GET /api/auth/me a failed external
\* call is answered 4xx/5xx; in GET /api/auth/me a failed introspection call
\* only fails its step: the answer is 401 unless another step (a cookie token
\* that passes introspection, or the CF_Authorization cookie) gives the
\* identity.
C10_FailuresAnswered ==
    pc = "responded"
    => /\ response.status \in {200, 201, 400, 401, 404, 500}
       /\ response.contentType = "application/json"
       /\ response.body.wf
       /\ response.status >= 400 => IsJSONError
       /\ (Failed /\ request.handler \notin AuthHandlers) => response.status >= 400
       /\ request.handler \in AuthHandlers =>
             /\ response.status \in {200, 401}
             /\ response.status = 200 =>
                   \/ response.ret = "cf"
                   \/ \E i \in DOMAIN trace :
                         trace[i].op = "fetch" /\ Passes(trace[i].ans)

\* The insert throws and the submission is answered 500 with a JSON error.
C10_Witness ==
    /\ Responded("POST recipes")
    /\ DbThrew
    /\ response.status = 500
    /\ IsJSONError

(***************************************************************************)
(* POST /api/verify-google.                                                *)
(***************************************************************************)
VerifyFetches == {i \in DOMAIN trace : trace[i].op = "fetch"}
\* The body has no token: it is not an object with a non-empty token.
NoToken(v) == ~(v.kind = "object" /\ HasKey(v, "token") /\ Get(v, "token") \notin {Str(""), Null})

\* C11: POST /api/verify-google answers 400, without an introspection call,
\* when the parsed body has no token; 401 when the introspection body has an
\* error field or an aud that is not the client id; 200 with success true and
\* the user when it has no error field and the aud is the client id; 500 when
\* the body does not parse or the introspection call throws; success is true
\* only with 200.
C11_VerifyStatus ==
    Responded("verify-google")
    => /\ ~request.body.wf => response.status = 500
       /\ (request.body.wf /\ NoToken(Payload)) =>
             response.status = 400 /\ VerifyFetches = {}
       /\ \A i \in VerifyFetches :
             LET ans == trace[i].ans
             IN  /\ (ans.threw \/ ~ans.body.wf) => response.status = 500
                 /\ (~ans.threw /\ ans.body.wf /\ ans.body.v.kind = "object") =>
                       IF HasKey(ans.body.v, "error") \/ Get(ans.body.v, "aud") # Str(CLIENT_ID)
                       THEN response.status = 401
                       ELSE /\ response.status = 200
                            /\ Get(response.body.v, "success") = Bool(TRUE)
                            /\ Keys(Get(response.body.v, "user"))
                                  \subseteq {"email", "name", "picture", "email_verified"}
       /\ Get(response.body.v, "success") = Bool(TRUE) => response.status = 200

(***************************************************************************)
(* The rows of the table.                                                  *)
(***************************************************************************)
\* Every row is the one its submission wrote.
RowsAsSubmitted ==
    /\ Len(store) = Len(accepted)
    /\ \A i \in DOMAIN store :
          /\ IdValue(store[i].id) = accepted[i].id
          /\ store[i].details.wf
          /\ JSONparse(store[i].details) = accepted[i].payload
          /\ store[i].title = FirstNonEmpty(accepted[i].payload, TitleKeys,
                                            Str("Untitled Recipe"))

\* A step leaves the table alone, or is a submission answered 201 that adds
\* one row; and a submission answered 201 adds a row.
RowsOnlyAdded ==
    /\ \/ store' = store
       \/ /\ response'.status = 201
          /\ request'.handler = "POST recipes"
          /\ Len(store') = Len(store) + 1
          /\ SubSeq(store', 1, Len(store)) = store
    /\ (pc = "idle" /\ response'.status = 201) => store' # store

\* C12: after any sequence of submit, list and fetch requests every row holds
\* the title and the details its submission wrote, the details parse to the
\* fields the client sent, no request changes or removes a row, and the
\* table grows by exactly one row per 201 response.
C12_RowsImmutable == [] RowsAsSubmitted /\ [][RowsOnlyAdded]_vars

\* Two submissions were accepted and the table is then listed.
C12_Witness ==
    /\ Responded("GET recipes")
    /\ Len(store) = 2 /\ Len(accepted) = 2
    /\ store[1].details # store[2].details
    /\ response.status = 200

(***************************************************************************)
(* Requests of GET /api/auth/me handled one after another.                 *)
(***************************************************************************)
\* C13: a request of GET /api/auth/me that is the same as one handled before
\* and gets the same introspection answers gets the same response; and a
\* token that verified in a request handled before is introspected again.
C13_Stateless ==
    AuthResponded
    => /\ (earlier.request = request /\ earlier.trace = trace)
             => earlier.response = response
       /\ (earlier.response.ret = "bearer"
           /\ earlier.request.authorization = request.authorization)
             => \E i \in BearerFetches : trace[i].arg = BearerToken
       /\ (earlier.response.ret = "cookieToken"
           /\ earlier.request.cookie = request.cookie
           /\ \A i \in BearerFetches : ~Passes(trace[i].ans))
             => \E i \in CookieFetches : trace[i].arg = "tB"

\* The bearer token verified before, is sent again and is introspected again
\* with the same answer.
C13_Witness ==
    /\ AuthResponded
    /\ earlier.request = request
    /\ earlier.response.ret = "bearer"
    /\ earlier.trace = trace
    /\ BearerFetches # {}
    /\ response.status = 200

(***************************************************************************)
(* The display name.                                                       *)
(***************************************************************************)
\* The claims the identity was taken from: the payload of the CF_Authorization
\* cookie, or the introspection body of the token that verified.
Credential ==
    IF response.ret = "cf" THEN CFPayload ELSE trace[Len(trace)].ans.body.v

\* C14: whichever step gave the identity, its name is the first non-empty of
\* the credential's name, given_name, family_name and email, and "User" when
\* there is none.
C14_DisplayName ==
    (AuthResponded /\ response.status = 200)
    => BodyGet("name") =
          FirstNonEmpty(Credential, <<"name", "given_name", "family_name", "email">>,
                        Str("User"))

(***************************************************************************)
(* The CF_Authorization cookie and the cookie token.                       *)
(***************************************************************************)
HasCookieToken == request.cookie.present /\ CookieTokenOf # ""

\* C15: when the bearer step does not succeed and the Cookie header has a
\* CF_Authorization cookie and a google_token or authToken cookie, then a
\* cookie that decodes gives the identity and the token is not introspected,
\* and a cookie that does not decode (not three parts, bad base64, bad JSON)
\* leaves the resolution to the introspection of the token.
C15_AccessBeforeToken ==
    (AuthResponded /\ NoBearerSuccess /\ CFCookies # {} /\ HasCookieToken)
    => /\ CFDecodes =>
             /\ response.status = 200
             /\ response.ret = "cf"
             /\ CookieFetches = {}
             /\ CFWellFormed =>
                   BodyGet("email") = FirstNonEmpty(CFPayload, <<"email", "sub">>,
                                                    Str("unknown@user"))
       /\ ~CFDecodes =>
             /\ \E i \in CookieFetches : trace[i].arg = CookieTokenOf
             /\ Cardinality(CookieFetches) = 1
             /\ response.status = 200 <=> \E i \in CookieFetches : Passes(trace[i].ans)
             /\ response.status = 200 => response.ret = "cookieToken"

\* A CF_Authorization cookie whose middle part is not base64 comes with a
\* google_token that verifies: the answer is 200 from the token.
C15_Witness ==
    /\ AuthResponded /\ ~HasBearer
    /\ CFCookies # {} /\ ~CFDecodes
    /\ Len(CFCookie.parts) = 3 /\ ~CFCookie.parts[2].b64
    /\ CookieTokenOf = "tB"
    /\ response.status = 200
    /\ response.ret = "cookieToken"

(***************************************************************************)
(* The fields of a fetched recipe.                                         *)
(***************************************************************************)
ColumnKeys == {"id", "name", "title", "recipeName", "created_at", "createdAt"}
\* What the row gives for a key of the response.
ColumnValue(row, k) ==
    CASE k = "id" -> IdValue(row.id)
      [] k \in {"name", "title", "recipeName"} -> row.title
      [] OTHER -> TimeValue(row.created_at)

\* C16: in the object of a single-recipe fetch, a key that the row sets has
\* the value of the details field of that name when there is one, and the
\* value of the column otherwise; id, title and recipeName are always there.
C16_DetailsOverColumns ==
    (pc = "responded" /\ request.handler \in SingleFetches /\ IdGiven
     /\ response.status = 200)
    => \A i \in RowsNamed :
          LET details == JSONparse(store[i].details)
          IN  /\ {"id", "title", "recipeName"} \subseteq Keys(response.body.v)
              /\ \A k \in ColumnKeys \cap Keys(response.body.v) :
                    IF details.kind = "object" /\ HasKey(details, k)
                    THEN BodyGet(k) = Get(details, k)
                    ELSE BodyGet(k) = ColumnValue(store[i], k)
              /\ \A k \in ColumnKeys :
                    (details.kind = "object" /\ HasKey(details, k))
                       => HasKey(response.body.v, k)

(***************************************************************************)
(* The optional fields of a listing.                                       *)
(***************************************************************************)
\* The spellings under which the details may carry a summary field.
SummarySpellings ==
    {<<"cuisine", {"cuisine"}>>, <<"difficulty", {"difficulty"}>>,
     <<"prepTime", {"prepTime", "prep_time"}>>, <<"cookTime", {"cookTime", "cook_time"}>>,
     <<"servings", {"servings"}>>, <<"description", {"description"}>>}

\* C17: after any accepted submissions, whatever fields they had and whatever
\* the types of their values, GET /api/recipes without id answers 200 (unless
\* the database fails), every summary field the details do not have is null
\* and the author is "Anonymous" when the details have none.
C17_ListingNeverFails ==
    (Responded("GET recipes") /\ ~IdGiven /\ ~DbThrew)
    => /\ response.status = 200
       /\ \A j \in DOMAIN Listing.kids : \A i \in ListingRow(Listing.kids[j]) :
             LET details == JSONparse(store[i].details)
                 entry == Listing.kids[j].val
             IN  /\ \A f \in SummarySpellings :
                       (\A k \in f[2] : ~HasKey(details, k))
                          => Get(Get(entry, "summary"), f[1]) = Null
                 /\ ~HasKey(details, "author") => Get(entry, "author") = Str("Anonymous")

(***************************************************************************)
(* The introspection calls of one request.                                 *)
(***************************************************************************)
AllFetches == {i \in DOMAIN trace : trace[i].op = "fetch"}

SessionCookies ==
    {i \in DOMAIN request.cookie.pairs :
        /\ request.cookie.pairs[i].name = "session"
        /\ request.cookie.pairs[i].value.raw # ""}
KvLookups == {i \in DOMAIN trace : trace[i].op = "kv"}
SessionLookups ==
    {i \in KvLookups : \E c \in SessionCookies :
        trace[i].arg = "session:" \o request.cookie.pairs[c].value.raw}
YieldsUser(i) ==
    /\ ~trace[i].ans.threw
    /\ trace[i].ans.body.wf
    /\ Truthy(Get(JSONparse(trace[i].ans.body), "userId"))
UserOf(i) == Get(JSONparse(trace[i].ans.body), "userId")
OwnedBy(u) == {r \in RowsNamed : store[r].user_id = u}

\* C19: the session-gated GET /api/recipe answers 400 when the id is missing,
\* 401 without touching the recipes table when the request has no session
\* cookie or the session's entry yields no userId, 404 when no row with the
\* id belongs to the session's user, and returns a recipe only when the
\* session cookie's entry yields the userId the row with that id belongs to.
C19_OwnerOnly ==
    Responded("GET recipe session") =>
        /\ ~IdGiven => response.status = 400 /\ trace = <<>>
        /\ (IdGiven /\ SessionLookups = {}) =>
                response.status = 401 /\ DbCalls = {}
        /\ (IdGiven /\ \E i \in SessionLookups : ~trace[i].ans.threw /\ ~YieldsUser(i)) =>
                response.status = 401 /\ DbCalls = {}
        /\ (\E i \in SessionLookups : YieldsUser(i) /\ OwnedBy(UserOf(i)) = {} /\ ~DbThrew) =>
                response.status = 404
        /\ response.status = 200 =>
                \E i \in SessionLookups : \E r \in OwnedBy(UserOf(i)) :
                    /\ YieldsUser(i)
                    /\ Get(JSONparse(response.body), "id") = IdValue(store[r].id)
                    /\ Get(JSONparse(response.body), "title") = store[r].title

\* The same, for requests none of whose cookies has a name that merely ends
\* in "session".
LookalikeCookies ==
    {i \in DOMAIN request.cookie.pairs :
        /\ EndsWith(request.cookie.pairs[i].name, "session")
        /\ request.cookie.pairs[i].name # "session"}
C19_OwnerOnlyNamed == LookalikeCookies = {} => C19_OwnerOnly
C19_Witness ==
    /\ Responded("GET recipe session")
    /\ response.status = 200
    /\ LookalikeCookies = {}
C19_OtherOwner ==
    /\ Responded("GET recipe session")
    /\ response.status = 404
    /\ RowsNamed # {}
    /\ \E i \in SessionLookups : YieldsUser(i)

(***************************************************************************)
(* The header controller of the pages (header.js): initHeaderAuth and      *)
(* verifyAuth, run against GET /api/auth/me.                               *)
(***************************************************************************)
Sent(mode, req, result, resp) ==
    [mode |-> mode, request |-> req, result |-> result, response |-> resp]

\* localStorage.getItem('authToken') || sessionStorage.getItem('authToken')
storedToken(h) ==
    IF StrTruthy(h.localStorage) THEN h.localStorage ELSE h.sessionStorage

\* The two fetches.  Both go to the page's own origin, so the browser sends
\* the origin's cookies with each of them.
bearerRequest(h) ==
    Request(h.server, Header("Bearer " \o storedToken(h).raw), h.cookies,
            Header("application/json"), BadJSON, NoParam)
cookieRequest(h) ==
    Request(h.server, NoHeader, h.cookies, Header("application/json"), BadJSON, NoParam)

\* What a fetch of /api/auth/me can do: reject, or resolve with a response of
\* the handler.
fetchResults(req) ==
    {[threw |-> TRUE, response |-> NoResponse]}
    \cup {[threw |-> FALSE, response |-> [o.resp EXCEPT !.ret = ""]] :
            o \in IF req.handler = "auth/me r1"
                  THEN onRequestGet_r1(req, Answers)
                  ELSE onRequestGet_r2(req, Answers)}

\* response.ok
ok(resp) == resp.status \in 200..299

resultOf(r) == IF r.threw THEN "thrown" ELSE IF ok(r.response) THEN "ok" ELSE "status"

\* The try block around one fetch: it returns what response.json() gives for
\* an ok response; anything else, a rejected json() included, goes on.
tryFetch(r) ==
    IF ~r.threw /\ ok(r.response) /\ r.response.body.wf
    THEN [returned |-> TRUE, userData |-> JSONparse(r.response.body)]
    ELSE [returned |-> FALSE, userData |-> Null]

\* userData.name || userData.fullName || userData.displayName
\*   || userData.email || 'User'
showUserInfo(userData) ==
    Or(Or(Or(Or(Get(userData, "name"), Get(userData, "fullName")),
             Get(userData, "displayName")), Get(userData, "email")), Str("User")).s

\* initHeaderAuth after verifyAuth has returned userData.
afterVerifyAuth(h, userData) ==
    IF Truthy(userData)
    THEN [h EXCEPT !.pc = "done", !.display = "user", !.userName = showUserInfo(userData)]
    ELSE [h EXCEPT !.pc = "done", !.display = "unauthenticated"]

settled(h, r) ==
    [h EXCEPT !.requests[Len(h.requests)].result = resultOf(r),
              !.requests[Len(h.requests)].response = r.response]

\* A bug the controller could have: the cookie request is sent whatever the
\* bearer request returned.
afterBearer_alwaysFallsBack(h, r) ==
    [settled(h, r) EXCEPT
        !.pc = "cookie",
        !.requests = @ \o <<Sent("cookie", cookieRequest(h), "pending", NoResponse)>>]

\* verifyAuth once the bearer fetch has settled with r.
afterBearer(h, r) ==
    IF tryFetch(r).returned
    THEN afterVerifyAuth(settled(h, r), tryFetch(r).userData)
    ELSE [settled(h, r) EXCEPT
            !.pc = "cookie",
            !.requests = @ \o <<Sent("cookie", cookieRequest(h), "pending", NoResponse)>>]

\* verifyAuth once the cookie fetch has settled with r.
afterCookie(h, r) ==
    IF tryFetch(r).returned
    THEN afterVerifyAuth(settled(h, r), tryFetch(r).userData)
    ELSE afterVerifyAuth(settled(h, r), Null)

\* initHeaderAuth up to the first await: the checking state is shown and
\* verifyAuth sends its first request.
initHeaderAuth ==
    /\ header.pc = "loaded"
    /\ header' =
          IF StrTruthy(storedToken(header))
          THEN [header EXCEPT
                  !.pc = "bearer", !.display = "checking", !.userName = "Checking",
                  !.requests = <<Sent("bearer", bearerRequest(header), "pending", NoResponse)>>]
          ELSE [header EXCEPT
                  !.pc = "cookie", !.display = "checking", !.userName = "Checking",
                  !.requests = <<Sent("cookie", cookieRequest(header), "pending", NoResponse)>>]
    /\ UNCHANGED <<store, pc, request, response, trace, accepted, earlier>>

bearerSettles ==
    /\ header.pc = "bearer"
    /\ \E r \in fetchResults(header.requests[Len(header.requests)].request) :
          header' = afterBearer(header, r)
    /\ UNCHANGED <<store, pc, request, response, trace, accepted, earlier>>

cookieSettles ==
    /\ header.pc = "cookie"
    /\ \E r \in fetchResults(header.requests[Len(header.requests)].request) :
          header' = afterCookie(header, r)
    /\ UNCHANGED <<store, pc, request, response, trace, accepted, earlier>>

\* The cookies the browser holds for the origin.
PageCookies ==
    {NoCookieHeader,
     CookieHeader(<<Cookie("google_token", Token("tB"))>>),
     CookieHeader(<<Cookie("CF_Authorization",
                           JWT(MkObj(<<Entry("email", Str("a@b.com")),
                                       Entry("name", Str("Ann"))>>)))>>)}

InitHeader ==
    /\ store = <<>>
    /\ pc = "idle"
    /\ request = NoRequest
    /\ response = NoResponse
    /\ trace = <<>>
    /\ accepted = <<>>
    /\ earlier = NoExchange
    /\ header \in {Page("loaded", "page", "", <<>>, l, ss, c, sv) :
                      l \in {NullString, Token(""), Token("tA")},
                      ss \in {NullString, Token("tS")},
                      c \in PageCookies,
                      sv \in {"auth/me r1", "auth/me r2"}}

NextHeader == initHeaderAuth \/ bearerSettles \/ cookieSettles

\* Every fetch settles: it resolves or rejects.
SpecHeader == InitHeader /\ [][NextHeader]_vars /\ WF_vars(NextHeader)

TokenInStorage == StrTruthy(header.localStorage) \/ StrTruthy(header.sessionStorage)
Requests == DOMAIN header.requests
ReturnedOk == {i \in Requests : header.requests[i].result = "ok"}

HeaderSafe ==
    header.pc # "" =>
        /\ header.pc = "loaded" => header.display = "page" /\ header.requests = <<>>
        /\ header.pc \in {"bearer", "cookie"} =>
               /\ header.display = "checking"
               /\ header.requests # <<>>
               /\ header.requests[Len(header.requests)].mode = header.pc
        /\ header.pc = "done" =>
               /\ header.display \in {"user", "unauthenticated"}
               /\ header.display = "user" <=> ReturnedOk # {}
               /\ \A i \in Requests : header.requests[i].result # "pending"
        /\ Len(header.requests) <= 2
        /\ \A i \in Requests :
               /\ header.requests[i].mode = "bearer" =>
                      /\ i = 1
                      /\ TokenInStorage
                      /\ header.requests[i].request.authorization.present
               /\ header.requests[i].mode = "cookie" =>
                      /\ ~header.requests[i].request.authorization.present
                      /\ i = 1 => ~TokenInStorage
                      /\ i = 2 => /\ header.requests[1].mode = "bearer"
                                  /\ header.requests[1].result \in {"status", "thrown"}

HeaderStep ==
    /\ header.pc = "loaded" => header'.display = "checking"
    /\ header.pc = "done" => header' = header
    /\ header'.pc = "done" => header.display = "checking"
    /\ \A i \in Requests :
           /\ i \in DOMAIN header'.requests
           /\ header'.requests[i].request = header.requests[i].request
           /\ header.requests[i].result # "pending" =>
                  header'.requests[i] = header.requests[i]

C20_FallbackFails ==
    /\ header.pc = "done"
    /\ header.display = "unauthenticated"
    /\ Len(header.requests) = 2
    /\ header.requests[1].result = "status"
    /\ header.requests[2].result = "thrown"
====
